---------------------------- MODULE Spec2Model ----------------------------
(***************************************************************************)
(* State-machine model of the streaming completion protocol layer of      *)
(* snow-cli: the retry orchestrator (utils/core/retryUtils.ts), the        *)
(* idle-timeout guard (createIdleTimeoutGuard) and the four provider       *)
(* adapters (api/chat.ts, api/responses.ts, api/anthropic.ts,              *)
(* api/gemini.ts).                                                         *)
(***************************************************************************)
EXTENDS Integers, Sequences, FiniteSets, TLC

(***************************************************************************)
(* Bounds of the model.                                                    *)
(***************************************************************************)
\* largest maxRetries option a caller passes in the model
MaxRetriesBound == 2
\* most elements one producer invocation yields
MaxYield == 2
\* the guard's clock runs from 0 to MaxTimeSteps steps of TimeStep ms
MaxTimeSteps == 16
\* idleTimeoutMs ranges over 0..MaxThresholdSteps steps of TimeStep ms
MaxThresholdSteps == 7
\* the event loop runs a due timer at most this many steps late
MaxTimerLagSteps == 1
\* most chunks the readers of one call's attempts deliver before a stream ends
MaxReads == 2
\* most complete lines one chunk adds to the line buffer (one more in the
\* chunks that end with the sentinel line)
MaxLines == 2
\* most events in one Anthropic response whose payloads are dispatched
MaxEvents == 5

(***************************************************************************)
(* Strings.  An error message is a TLA+ string; String.prototype.includes, *)
(* toLowerCase and the regular expression of withRetryGenerator are        *)
(* computed character by character.                                        *)
(***************************************************************************)
UpperCaseLetters == "ABCDEFGHIJKLMNOPQRSTUVWXYZ"
LowerCaseLetters == "abcdefghijklmnopqrstuvwxyz"

LowerChar(c) ==
  IF \E i \in 1..Len(UpperCaseLetters) : SubSeq(UpperCaseLetters, i, i) = c
  THEN LET i == CHOOSE j \in 1..Len(UpperCaseLetters) :
                   SubSeq(UpperCaseLetters, j, j) = c
       IN  SubSeq(LowerCaseLetters, i, i)
  ELSE c

RECURSIVE ToLowerCase(_)
ToLowerCase(s) ==
  IF Len(s) = 0 THEN s
  ELSE IF Len(s) = 1 THEN LowerChar(s)
  ELSE LET h == Len(s) \div 2
       IN  ToLowerCase(SubSeq(s, 1, h)) \o ToLowerCase(SubSeq(s, h + 1, Len(s)))

\* s.includes(t)
Includes(s, t) ==
  \E i \in 1..(Len(s) - Len(t) + 1) : SubSeq(s, i, i + Len(t) - 1) = t

(***************************************************************************)
(* Errors.  An Error object is its name and its message.                   *)
(***************************************************************************)
Err(n, m) == [name |-> n, message |-> m]

\* lastError = null
NoError == Err("", "")

\* new StreamIdleTimeoutError(`No data received for ${idleTimeoutMs}ms`)
StreamIdleTimeoutError(message) ==
  Err("StreamIdleTimeoutError",
      "[API_ERROR] [RETRIABLE] Stream idle timeout: " \o message)

\* new Error('Request aborted'), thrown by the wrappers themselves
RequestAborted == Err("Error", "Request aborted")

\* new Error('Aborted'), the rejection of delay()
DelayAborted == Err("Error", "Aborted")

\* The failures an operation or a producer raises in the model.
Errors ==
  { StreamIdleTimeoutError("No data received for 180000ms"),
    Err("StreamIdleTimeoutError", "No data for 3min"),
    Err("Error", "Stream terminated unexpectedly with incomplete data: {\"a..."),
    Err("TypeError", "terminated"),
    Err("Error", "reader error"),
    Err("Error", "incomplete data"),
    Err("Error", "OpenAI API error: 503 Service Unavailable - "),
    Err("Error", "OpenAI API error: 400 Bad Request - unknown model"),
    Err("AbortError", "This operation was aborted"),
    Err("AbortError", "The operation was aborted due to timeout"),
    DelayAborted,
    RequestAborted }

\* (mutant) the name test is forgotten
IsAbortErrorMessageOnly(e) == e.message = "Aborted"

\* lastError.name === 'AbortError' || lastError.message === 'Aborted'
IsAbortError(e) == e.name = "AbortError" \/ e.message = "Aborted"

\* the substrings isRetriableError looks for in the lower-cased message
RetriableSubstrings ==
  { "network", "econnrefused", "econnreset", "etimedout", "timeout",
    "rate limit", "too many requests", "429",
    "500", "502", "503", "504", "internal server error", "bad gateway",
    "service unavailable", "gateway timeout",
    "overloaded", "unavailable",
    "terminated", "connection reset", "socket hang up",
    "invalid tool call json", "incomplete tool call json" }

IsRetriableError(error) ==
  \/ error.name = "StreamIdleTimeoutError"
  \/ LET errorMessage == ToLowerCase(error.message)
     IN  \E t \in RetriableSubstrings : Includes(errorMessage, t)

\* (mutant) only the idle timeout counts as an interruption of the stream
IsStreamInterruptionIdleOnly(error) ==
  Includes(ToLowerCase(error.message), "idle timeout")

\* /Stream terminated unexpectedly|incomplete data|reader error|^terminated$|idle timeout/i
IsStreamInterruption(error) ==
  LET m == ToLowerCase(error.message)
  IN  \/ Includes(m, "stream terminated unexpectedly")
      \/ Includes(m, "incomplete data")
      \/ Includes(m, "reader error")
      \/ m = "terminated"
      \/ Includes(m, "idle timeout")

\* The classifications of every error of the model, computed once.
\* setInterval(..., 5000)
CheckIntervalMs == 5000
TimeStep == CheckIntervalMs \div 5
MaxTime == MaxTimeSteps * TimeStep
MaxTimerLag == MaxTimerLagSteps * TimeStep

\* idleTimeoutMs = (config.streamIdleTimeoutSec ?? 180) * 1000
Thresholds == { k * TimeStep : k \in 0..MaxThresholdSteps }

\* onTimeout: not given, or the callback every adapter passes, which throws
\* new StreamIdleTimeoutError(`No data received for ${idleTimeoutMs}ms`)
OnTimeoutOptions == {"none", "throws"}

\* `No data received for ${idleTimeoutMs}ms`: the number is kept as the
\* number of TimeStep steps
MsText(ms) ==
  LET digits == <<"0", "1", "2", "3", "4", "5", "6", "7", "8", "9">>
      k == ms \div TimeStep
  IN  (IF k >= 10 THEN digits[(k \div 10) + 1] ELSE "")
      \o digits[(k % 10) + 1] \o "000"

NoDataReceived(ms) ==
  StreamIdleTimeoutError("No data received for " \o MsText(ms) \o "ms")

\* the four provider adapters
Adapters == {"anthropic", "chat", "responses", "gemini"}

\* the provider's name in an adapter's error messages
ApiName(a) ==
  CASE a = "anthropic" -> "Anthropic"
    [] a = "chat" -> "OpenAI"
    [] a = "responses" -> "OpenAI Responses"
    [] a = "gemini" -> "Gemini"

\* what fetch() and reader.read() reject with
TransportAbort == Err("AbortError", "This operation was aborted")
TransportTerminated == Err("TypeError", "terminated")

\* `${ApiName} API fetch failed: ${errorMessage}\nURL: ...\nModel: ...`
FetchFailed(a, error) ==
  Err("Error",
      ApiName(a) \o " API fetch failed: " \o error.message
      \o "\nURL: u\nModel: m\nError type: "
      \o (IF error.name = "TypeError" THEN "Network/Connection Error"
          ELSE "Unknown Error")
      \o "\nPossible causes: Network unavailable, DNS resolution failed, "
      \o "proxy issues, or server unreachable")

\* a response's status line and the text of its body
Response(status, statusText, body) ==
  [status |-> status, statusText |-> statusText, body |-> body]

\* the responses a provider answers a request with
HttpResponses ==
  { Response(200, "OK", ""),
    Response(400, "Bad Request", "unknown model"),
    Response(408, "Request Timeout", ""),
    Response(429, "Too Many Requests", ""),
    Response(501, "Not Implemented", ""),
    Response(503, "Service Unavailable", "") }

RECURSIVE NumberToString(_)
\* the decimal digits a number is interpolated as
NumberToString(n) ==
  LET Digit(d) == SubSeq("0123456789", d + 1, d + 1)
  IN  IF n < 10 THEN Digit(n)
      ELSE NumberToString(n \div 10) \o Digit(n % 10)

\* `${ApiName} API error: ${response.status} ${response.statusText} - ${errorText}`
ApiError(a, response) ==
  Err("Error",
      ApiName(a) \o " API error: " \o NumberToString(response.status)
      \o " " \o response.statusText \o " - " \o response.body)

\* the reader reported the end with text left in the line buffer
TerminatedUnexpectedly(a) ==
  CASE a = "responses" ->
         Err("Error",
             "Stream terminated unexpectedly with incomplete data: {\"a...")
    [] a = "gemini" ->
         Err("Error",
             "[API_ERROR] [RETRIABLE] Gemini stream terminated unexpectedly "
             \o "with incomplete data: {\"a...")
    [] OTHER ->
         Err("Error",
             "[API_ERROR] [RETRIABLE] " \o ApiName(a)
             \o " stream terminated unexpectedly with incomplete data. "
             \o "Context: {\"dataCount\":1,\"lastEventType\":\"\","
             \o "\"bufferLength\":3,\"bufferPreview\":\"{\\\"a\"}")

\* the errors an adapter's producer throws
AdapterErrors ==
  { NoDataReceived(t) : t \in Thresholds }
  \cup { FetchFailed(a, TransportAbort) : a \in Adapters }
  \cup { ApiError(a, r) : a \in Adapters, r \in HttpResponses }
  \cup { TerminatedUnexpectedly(a) : a \in Adapters }
  \cup { TransportAbort, TransportTerminated }

Retriable == [e \in Errors \cup AdapterErrors |-> IsRetriableError(e)]
StreamInterruption ==
  [e \in Errors \cup AdapterErrors |-> IsStreamInterruption(e)]

RECURSIVE Pow2(_)
\* Math.pow(2, attempt)
Pow2(n) == IF n = 0 THEN 1 ELSE 2 * Pow2(n - 1)

(***************************************************************************)
(* JSON texts.  A text is a string; the value JSON.parse gives it is kept  *)
(* as the text JSON.stringify gives that value, so that two values are     *)
(* equal exactly if their texts are.  The grammar covered is objects,      *)
(* arrays, strings with the escapes \" and \\, integers and the three      *)
(* literals; the texts of the model use no other escape, no fraction and   *)
(* no exponent, and no key that is an array index.                         *)
(***************************************************************************)
\* s.charAt(i - 1), "" past the end
CharAt(s, i) == IF i >= 1 /\ i <= Len(s) THEN SubSeq(s, i, i) ELSE ""

\* s.slice(i - 1)
From(s, i) == SubSeq(s, i, Len(s))

\* the characters \s and \w match
IsSpace(c) == c \in {" ", "\n", "\t", "\r"}
IsDigit(c) == c \in {"0", "1", "2", "3", "4", "5", "6", "7", "8", "9"}
IsWordChar(c) ==
  \/ IsDigit(c) \/ c = "_"
  \/ \E i \in 1..26 : c = SubSeq(UpperCaseLetters, i, i)
                      \/ c = SubSeq(LowerCaseLetters, i, i)

RECURSIVE SkipSpace(_, _)
\* the first position from i on that holds no whitespace
SkipSpace(s, i) == IF IsSpace(CharAt(s, i)) THEN SkipSpace(s, i + 1) ELSE i

RECURSIVE SkipWord(_, _)
\* the first position from i on that holds no word character
SkipWord(s, i) == IF IsWordChar(CharAt(s, i)) THEN SkipWord(s, i + 1) ELSE i

\* a parse that failed, and one that gave the value with text t and went
\* on to position i
NoParse == [ok |-> FALSE, pos |-> 0, text |-> ""]
Parsed(t, i) == [ok |-> TRUE, pos |-> i, text |-> t]

\* a string literal at i, quotes included.  StringEnd(j) is the position
\* of the quote that closes the string whose characters start at j; 0 if
\* the string is not closed or holds a control character or an escape
\* other than \" and \\
ParseString(s, i) ==
  LET RECURSIVE StringEnd(_)
      StringEnd(j) ==
        LET c == CharAt(s, j)
        IN  IF c = "" \/ c \in {"\n", "\t", "\r"} THEN 0
            ELSE IF c = "\"" THEN j
            ELSE IF c = "\\"
            THEN IF CharAt(s, j + 1) \in {"\"", "\\"}
                 THEN StringEnd(j + 2) ELSE 0
            ELSE StringEnd(j + 1)
      e == StringEnd(i + 1)
  IN  IF CharAt(s, i) # "\"" THEN NoParse
      ELSE IF e = 0 THEN NoParse ELSE Parsed(SubSeq(s, i, e), e + 1)

\* an integer at i: -?(0|[1-9][0-9]*), not followed by a fraction or an
\* exponent; -0 is the number 0
ParseNumber(s, i) ==
  LET RECURSIVE SkipDigits(_)
      SkipDigits(j) == IF IsDigit(CharAt(s, j)) THEN SkipDigits(j + 1) ELSE j
      d == IF CharAt(s, i) = "-" THEN i + 1 ELSE i
      e == SkipDigits(d)
  IN  IF e = d THEN NoParse
      ELSE IF CharAt(s, d) = "0" /\ e > d + 1 THEN NoParse
      ELSE IF CharAt(s, e) \in {".", "e", "E"} THEN NoParse
      ELSE IF SubSeq(s, i, e - 1) = "-0" THEN Parsed("0", e)
      ELSE Parsed(SubSeq(s, i, e - 1), e)

\* one of the literals true, false, null at i
ParseLiteral(s, i) ==
  IF i + 3 <= Len(s) /\ SubSeq(s, i, i + 3) = "true"
  THEN Parsed("true", i + 4)
  ELSE IF i + 3 <= Len(s) /\ SubSeq(s, i, i + 3) = "null"
  THEN Parsed("null", i + 4)
  ELSE IF i + 4 <= Len(s) /\ SubSeq(s, i, i + 4) = "false"
  THEN Parsed("false", i + 5)
  ELSE NoParse

RECURSIVE JoinTexts(_)
\* the texts ts, separated by commas
JoinTexts(ts) ==
  IF ts = <<>> THEN ""
  ELSE IF Len(ts) = 1 THEN ts[1]
  ELSE ts[1] \o "," \o JoinTexts(Tail(ts))

\* the members ms with the member key: text set: a key that is there keeps
\* its place and takes the new value
SetMember(ms, key, text) ==
  IF \E j \in 1..Len(ms) : ms[j].key = key
  THEN [j \in 1..Len(ms) |->
          IF ms[j].key = key THEN [key |-> key, text |-> text] ELSE ms[j]]
  ELSE Append(ms, [key |-> key, text |-> text])

RECURSIVE ParseValue(_, _)
RECURSIVE ParseElements(_, _, _)
RECURSIVE ParseMembers(_, _, _)

\* the elements of an array from i on (after "[" or a comma), ts being the
\* texts of the elements before
ParseElements(s, i, ts) ==
  LET v == ParseValue(s, SkipSpace(s, i))
      j == SkipSpace(s, v.pos)
  IN  IF ~v.ok THEN NoParse
      ELSE IF CharAt(s, j) = ","
      THEN ParseElements(s, j + 1, Append(ts, v.text))
      ELSE IF CharAt(s, j) = "]"
      THEN Parsed("[" \o JoinTexts(Append(ts, v.text)) \o "]", j + 1)
      ELSE NoParse

\* the members of an object from i on (after "{" or a comma), ms being the
\* members before
ParseMembers(s, i, ms) ==
  LET k == ParseString(s, SkipSpace(s, i))
      c == SkipSpace(s, k.pos)
      v == ParseValue(s, SkipSpace(s, c + 1))
      j == SkipSpace(s, v.pos)
      all == SetMember(ms, k.text, v.text)
  IN  IF ~k.ok \/ CharAt(s, c) # ":" THEN NoParse
      ELSE IF ~v.ok THEN NoParse
      ELSE IF CharAt(s, j) = "," THEN ParseMembers(s, j + 1, all)
      ELSE IF CharAt(s, j) = "}"
      THEN Parsed("{" \o JoinTexts([n \in 1..Len(all) |->
                                      all[n].key \o ":" \o all[n].text])
                  \o "}", j + 1)
      ELSE NoParse

\* a value at i
ParseValue(s, i) ==
  LET c == CharAt(s, i)
  IN  IF c = "{"
      THEN IF CharAt(s, SkipSpace(s, i + 1)) = "}"
           THEN Parsed("{}", SkipSpace(s, i + 1) + 1)
           ELSE ParseMembers(s, i + 1, <<>>)
      ELSE IF c = "["
      THEN IF CharAt(s, SkipSpace(s, i + 1)) = "]"
           THEN Parsed("[]", SkipSpace(s, i + 1) + 1)
           ELSE ParseElements(s, i + 1, <<>>)
      ELSE IF c = "\"" THEN ParseString(s, i)
      ELSE IF c = "-" \/ IsDigit(c) THEN ParseNumber(s, i)
      ELSE ParseLiteral(s, i)

\* JSON.parse(s): ok if s is one JSON value between optional whitespace;
\* text is then JSON.stringify of the value
JsonParse(s) ==
  LET v == ParseValue(s, SkipSpace(s, 1))
  IN  IF v.ok /\ SkipSpace(s, v.pos) > Len(s)
      THEN [ok |-> TRUE, text |-> v.text]
      ELSE [ok |-> FALSE, text |-> ""]

(***************************************************************************)
(* parseJsonWithFix: JSON.parse, and on failure the five repairs in the    *)
(* order of the code, then JSON.parse again.                               *)
(***************************************************************************)
RECURSIVE CountChar(_, _)
\* (s.match(/c/g) || []).length
CountChar(s, c) ==
  IF s = "" THEN 0
  ELSE (IF CharAt(s, 1) = c THEN 1 ELSE 0) + CountChar(From(s, 2), c)

RECURSIVE Repeat(_, _)
\* c.repeat(n)
Repeat(c, n) == IF n <= 0 THEN "" ELSE c \o Repeat(c, n - 1)

\* a match of /(\"[\w]+\"\s*:\s*[^,}\]]+)\s*\":\s*\"[^\"]*\"/ that starts
\* at i: where group 1 ends (cut) and where the match ends (stop), both
\* exclusive; cut = 0 if there is no match at i.  [^,}\]]+ is greedy: the
\* cut is the longest run from p after which the tail of the pattern,
\* \s*\":\s*\"[^\"]*\", matches.
MalformedMatch(s, i) ==
  LET RECURSIVE SkipValueChars(_)
      RECURSIVE SkipToQuote(_)
      RECURSIVE Cut(_, _)
      SkipValueChars(j) ==
        IF CharAt(s, j) \in {"", ",", "}", "]"} THEN j
        ELSE SkipValueChars(j + 1)
      SkipToQuote(j) ==
        IF CharAt(s, j) = "" THEN 0
        ELSE IF CharAt(s, j) = "\"" THEN j
        ELSE SkipToQuote(j + 1)
      TailEnd(j) ==
        LET q == SkipSpace(s, j)
            v == SkipSpace(s, q + 2)
        IN  IF /\ CharAt(s, q) = "\"" /\ CharAt(s, q + 1) = ":"
               /\ CharAt(s, v) = "\""
            THEN SkipToQuote(v + 1)
            ELSE 0
      Cut(p, k) ==
        IF k <= p THEN 0
        ELSE IF TailEnd(k) # 0 THEN k
        ELSE Cut(p, k - 1)
      w == SkipWord(s, i + 1)
      c == SkipSpace(s, w + 1)
      cut == Cut(c + 1, SkipValueChars(c + 1))
  IN  IF /\ CharAt(s, i) = "\"" /\ w > i + 1 /\ CharAt(s, w) = "\""
         /\ CharAt(s, c) = ":" /\ cut # 0
      THEN [cut |-> cut, stop |-> TailEnd(cut) + 1]
      ELSE [cut |-> 0, stop |-> 0]

\* Fix 1: fixedJson.replace(malformedPattern, '$1'): a value followed by an
\* extra ": "..." loses that tail
FixMalformed(s) ==
  LET RECURSIVE From1(_)
      From1(i) ==
        IF i > Len(s) THEN ""
        ELSE LET m == MalformedMatch(s, i)
             IN  IF m.cut # 0 THEN SubSeq(s, i, m.cut - 1) \o From1(m.stop)
                 ELSE CharAt(s, i) \o From1(i + 1)
  IN  From1(1)

\* Fix 2: fixedJson.replace(/,(\s*[}\]])/g, '$1'): a comma before a
\* closer is removed
FixTrailingCommas(s) ==
  LET RECURSIVE From2(_)
      From2(i) ==
        IF i > Len(s) THEN ""
        ELSE IF CharAt(s, i) = ","
                /\ CharAt(s, SkipSpace(s, i + 1)) \in {"}", "]"}
        THEN From2(i + 1)
        ELSE CharAt(s, i) \o From2(i + 1)
  IN  From2(1)

\* a match of /opener\s*(\w+)\s*:/ that starts at i: the word's first
\* position, the position after it, and the position of the colon; colon
\* = 0 if there is no match at i
UnquotedKeyMatch(s, i, opener) ==
  LET a == SkipSpace(s, i + 1)
      b == SkipWord(s, a)
      c == SkipSpace(s, b)
  IN  IF CharAt(s, i) = opener /\ b > a /\ CharAt(s, c) = ":"
      THEN [from |-> a, to |-> b, colon |-> c]
      ELSE [from |-> 0, to |-> 0, colon |-> 0]

RECURSIVE QuoteKeysFrom(_, _, _)
\* fixedJson.replace(/opener\s*(\w+)\s*:/g, 'opener"$1":') from position i
QuoteKeysFrom(s, i, opener) ==
  IF i > Len(s) THEN ""
  ELSE LET m == UnquotedKeyMatch(s, i, opener)
       IN  IF m.colon # 0
           THEN opener \o "\"" \o SubSeq(s, m.from, m.to - 1) \o "\":"
                \o QuoteKeysFrom(s, m.colon + 1, opener)
           ELSE CharAt(s, i) \o QuoteKeysFrom(s, i + 1, opener)

\* /{\s*\w+\s*:/.test(fixedJson)
HasUnquotedKey(s) ==
  \E i \in 1..Len(s) : UnquotedKeyMatch(s, i, "{").colon # 0

\* Fix 3: the keys without quotes get them, after "{" and then after ","
FixUnquotedKeys(s) == QuoteKeysFrom(QuoteKeysFrom(s, 1, "{"), 1, ",")

RECURSIVE RemoveLast(_, _, _)
\* n times fixedJson.replace(/c([^c]*)$/, '$1'): the last c is removed
RemoveLast(s, c, n) ==
  LET RECURSIVE LastIndexOf(_)
      LastIndexOf(j) ==
        IF j < 1 THEN 0 ELSE IF CharAt(s, j) = c THEN j
        ELSE LastIndexOf(j - 1)
      i == LastIndexOf(Len(s))
  IN  IF n <= 0 \/ i = 0 THEN s
      ELSE RemoveLast(SubSeq(s, 1, i - 1) \o From(s, i + 1), c, n - 1)

\* the five repairs: the text after them, and whether one was applied
FixJson(jsonString) ==
  LET Fix45(f3, fixed, openBraces, closeBraces, openBrackets, closeBrackets) ==
        [fixedJson |->
           RemoveLast(RemoveLast(f3 \o Repeat("}", openBraces - closeBraces)
                                    \o Repeat("]", openBrackets - closeBrackets),
                                 "}", closeBraces - openBraces),
                      "]", closeBrackets - openBrackets),
         wasFixed |-> \/ fixed \/ openBraces # closeBraces
                      \/ openBrackets # closeBrackets]
      Count(f3, fixed) ==
        Fix45(f3, fixed, CountChar(f3, "{"), CountChar(f3, "}"),
              CountChar(f3, "["), CountChar(f3, "]"))
      Fix3(f2, fixed, unquoted) ==
        Count(IF unquoted THEN FixUnquotedKeys(f2) ELSE f2, fixed \/ unquoted)
      Fix2(f1, f2, fixed) == Fix3(f2, fixed \/ f2 # f1, HasUnquotedKey(f2))
      Fix1(f1) == Fix2(f1, FixTrailingCommas(f1), f1 # jsonString)
  IN  Fix1(FixMalformed(jsonString))

ParseJsonWithFix(jsonString, fallbackValue) ==
  LET Second(second, wasFixed) ==
        IF second.ok
        THEN [success |-> TRUE, data |-> second.text, wasFixed |-> wasFixed]
        ELSE [success |-> FALSE, data |-> fallbackValue,
              wasFixed |-> wasFixed]
      Fixed(fix) == Second(JsonParse(fix.fixedJson), fix.wasFixed)
      First(first) ==
        IF first.ok
        THEN [success |-> TRUE, data |-> first.text, wasFixed |-> FALSE]
        ELSE Fixed(FixJson(jsonString))
  IN  First(JsonParse(jsonString))

(***************************************************************************)
(* The retry orchestrator: withRetry (mode "one") and withRetryGenerator   *)
(* (mode "gen").                                                           *)
(***************************************************************************)
VARIABLES
  mode,        \* which wrapper this call is: "one" or "gen"
  maxRetries,  \* options.maxRetries
  baseDelay,   \* options.baseDelay
  onRetry,     \* whether options.onRetry is given
  aborted,     \* abortSignal.aborted
  pc,          \* "loop" (head of while), "running" (fn invoked, not settled),
               \* "delay" (awaiting delay()), "done"
  attempt,     \* let attempt
  lastError,   \* let lastError
  hasYielded,  \* let hasYielded
  yielded,     \* elements the current producer invocation has yielded
  calls,       \* times fn was invoked
  obs,         \* the calls of onRetry, in order: (error, attempt, nextDelay)
  out,         \* the elements the caller of withRetryGenerator received
  result,      \* how the wrapper ended: pending, returned (value) or thrown (error)
  ev           \* the step taken last

retryVars == <<mode, maxRetries, baseDelay, onRetry, aborted, pc, attempt,
               lastError, hasYielded, yielded, calls, obs, out, result, ev>>

VARIABLES
  now,             \* Date.now()
  idleTimeoutMs,   \* the threshold the guard was created with
  onTimeout,       \* the onTimeout callback the guard was created with
  isAbandoned,     \* let isAbandoned
  lastChunkTime,   \* let lastChunkTime
  idleTimer,       \* let idleTimer: "active" or "null"
  timeoutError,    \* let timeoutError
  timeoutErrorBy,  \* which statement stored timeoutError
  nextCheck,       \* when the interval's next callback is due
  readerCancels,   \* whether reader.cancel() was attempted
  lastTouchAt      \* when touch() was called last (-1: never)

guardVars == <<now, idleTimeoutMs, onTimeout, isAbandoned, lastChunkTime,
               idleTimer, timeoutError, timeoutErrorBy, nextCheck,
               readerCancels, lastTouchAt>>

VARIABLES
  adapter,          \* which adapter's producer the wrapper runs ("none": none)
  apc,              \* where the producer is suspended: "none", "fetch"
                    \* (await fetch), "read" (await reader.read()), "yield"
  pending,          \* the events the producer has yet to yield before it
                    \* reaches the continuation `after`
  after,            \* "loop": the decode loop goes on; "final": the loop was
                    \* left by break; "return": the producer's end
  reads,            \* chunks read in this call, over its attempts
  hasToolCalls,     \* let hasToolCalls
  usageData,        \* whether usageData is set (gemini: totalTokens.total > 0)
  reasoningStarted, \* chat: let reasoningStarted
  reasoningData,    \* responses: whether reasoningData is set
  lines,            \* the lines of the chunk the loop has yet to run
  sawDone,          \* whether the sentinel line was decoded in this attempt
  input,            \* what reader.read() resolved with in the last step
  touched           \* the frames the last step called guard.touch() for

streamVars == <<adapter, apc, pending, after, reads, hasToolCalls, usageData,
                reasoningStarted, reasoningData, lines, sawDone, input,
                touched>>

VARIABLES
  sseEvents,           \* the events parseSSEStream yields in this response
  cursor,              \* how many of them the loop has been given
  finished,            \* whether the code after the loop has run
  toolCallsBuffer,     \* const toolCallsBuffer, in insertion order
  blockIndexToId,      \* const blockIndexToId ("": no entry)
  completedToolBlocks, \* let completedToolBlocks
  currentFunctionCallId, \* let currentFunctionCallId ("": null; Responses)
  usageRecord,         \* let usageData, with its token counts
  emitted              \* the events the producer has yielded, with payloads

dispatchVars == <<sseEvents, cursor, finished, toolCallsBuffer, blockIndexToId,
                  completedToolBlocks, currentFunctionCallId, usageRecord,
                  emitted>>

VARIABLES
  repairCase,   \* a call of parseJsonWithFix: the text it is given, and the
                \* valid text and the malformation the text was made from
  repairResult  \* what the call returned ("kind" tells whether it has)

repairVars == <<repairCase, repairResult>>

VARIABLES
  streamingCall, \* a call of create...Streaming...: its adapter, whether
                 \* options.configProfile is set, and maxRetries
  storedProfile, \* the snowcfg of the named profile as loadProfile finds it
                 \* in the store now ("missing": no such profile)
  config,        \* let config ("unset" before it is assigned)
  requests,      \* the configuration each attempt built its request from
  callPc         \* "call", "invoke", "attempt", "done" ("none": no call)

configVars == <<streamingCall, storedProfile, config, requests, callPc>>

vars == <<retryVars, guardVars, streamVars, dispatchVars, repairVars, configVars>>

\* the values an operation resolves with
Values == {"v1", "v2"}

\* options.maxRetries: a given count, or the default
DefaultMaxRetries == 5
\* options.baseDelay: the default
DefaultBaseDelay == 1000
BaseDelays == {1, DefaultBaseDelay}

Pending == [kind |-> "pending", value |-> "", error |-> NoError]
Returned(v) == [kind |-> "returned", value |-> v, error |-> NoError]
Thrown(e) == [kind |-> "thrown", value |-> "", error |-> e]

\* (mutant) the wrapper throws a new error of its own
RaiseRetryFailed(e) == pc' = "done" /\ result' = Thrown(Err("Error", "Retry failed"))

\* a throw that leaves the wrapper
Raise(e) == pc' = "done" /\ result' = Thrown(e)

\* (mutant) the exponent is the number of the next attempt
NextDelayOffByOne == baseDelay * Pow2(attempt + 1)

\* const nextDelay = baseDelay * Math.pow(2, attempt)
NextDelay == baseDelay * Pow2(attempt)

\* onRetry(lastError, attempt + 1, nextDelay), then await delay(nextDelay,
\* abortSignal): delay() rejects in its executor when the signal is already
\* aborted, and the wrapper turns the rejection into 'Request aborted'.
Backoff(error) ==
  /\ obs' = IF onRetry
            THEN Append(obs, [error |-> error, attempt |-> attempt + 1,
                              nextDelay |-> NextDelay])
            ELSE obs
  /\ IF aborted THEN Raise(RequestAborted)
     ELSE pc' = "delay" /\ result' = result

\* (mutant) every failure is retried while attempts remain
WithRetryCatchRetriesAll(error) ==
  /\ lastError' = error
  /\ IF IsAbortError(error) THEN Raise(error) /\ obs' = obs
     ELSE IF attempt >= maxRetries THEN Raise(error) /\ obs' = obs
     ELSE Backoff(error)

\* the catch block of withRetry
WithRetryCatch(error) ==
  /\ lastError' = error
  /\ IF IsAbortError(error) THEN Raise(error) /\ obs' = obs
     ELSE IF attempt >= maxRetries THEN Raise(error) /\ obs' = obs
     ELSE IF ~Retriable[error] THEN Raise(error) /\ obs' = obs
     ELSE Backoff(error)

\* (mutant) a failure after partial output is retried like any other
WithRetryGeneratorCatchIgnoresYielded(error) ==
  /\ lastError' = error
  /\ IF IsAbortError(error) THEN Raise(error) /\ obs' = obs
     ELSE IF attempt >= maxRetries THEN Raise(error) /\ obs' = obs
     ELSE IF ~Retriable[error] THEN Raise(error) /\ obs' = obs
     ELSE Backoff(error)

\* (mutant) no failure after partial output is retried
WithRetryGeneratorCatchNeverAfterYield(error) ==
  /\ lastError' = error
  /\ IF IsAbortError(error) THEN Raise(error) /\ obs' = obs
     ELSE IF hasYielded THEN Raise(error) /\ obs' = obs
     ELSE IF attempt >= maxRetries THEN Raise(error) /\ obs' = obs
     ELSE IF ~Retriable[error] THEN Raise(error) /\ obs' = obs
     ELSE Backoff(error)

\* (mutant) a stream interruption is retried whatever isRetriableError says
WithRetryGeneratorCatchInterruptionSuffices(error) ==
  /\ lastError' = error
  /\ IF IsAbortError(error) THEN Raise(error) /\ obs' = obs
     ELSE IF hasYielded /\ ~StreamInterruption[error]
          THEN Raise(error) /\ obs' = obs
     ELSE IF attempt >= maxRetries THEN Raise(error) /\ obs' = obs
     ELSE IF ~Retriable[error] /\ ~StreamInterruption[error]
          THEN Raise(error) /\ obs' = obs
     ELSE Backoff(error)

\* the catch block of withRetryGenerator
WithRetryGeneratorCatch(error) ==
  /\ lastError' = error
  /\ IF IsAbortError(error) THEN Raise(error) /\ obs' = obs
     ELSE IF hasYielded /\ ~StreamInterruption[error]
          THEN Raise(error) /\ obs' = obs
     ELSE IF attempt >= maxRetries THEN Raise(error) /\ obs' = obs
     ELSE IF ~Retriable[error] THEN Raise(error) /\ obs' = obs
     ELSE Backoff(error)

\* (mutant) hasYielded is declared inside the loop: every attempt starts
\* with hasYielded = false
InvokeResetsHasYielded ==
  /\ pc = "loop"
  /\ IF attempt > maxRetries
     THEN /\ Raise(IF lastError # NoError THEN lastError
                   ELSE Err("Error", "Retry failed"))
          /\ calls' = calls /\ ev' = "LoopExit"
     ELSE IF aborted
     THEN Raise(RequestAborted) /\ calls' = calls /\ ev' = "AbortedAtLoop"
     ELSE pc' = "running" /\ result' = result /\ calls' = calls + 1
          /\ ev' = "Invoke"
  /\ yielded' = 0 /\ hasYielded' = FALSE
  /\ UNCHANGED <<mode, maxRetries, baseDelay, onRetry, aborted, attempt,
                 lastError, obs, out>>

\* (mutant) the loop head does not look at abortSignal
InvokeUnchecked ==
  /\ pc = "loop"
  /\ IF attempt > maxRetries
     THEN /\ Raise(IF lastError # NoError THEN lastError
                   ELSE Err("Error", "Retry failed"))
          /\ calls' = calls /\ ev' = "LoopExit"
     ELSE pc' = "running" /\ result' = result /\ calls' = calls + 1
          /\ ev' = "Invoke"
  /\ yielded' = 0
  /\ UNCHANGED <<mode, maxRetries, baseDelay, onRetry, aborted, attempt,
                 lastError, hasYielded, obs, out>>

\* while (attempt <= maxRetries) { if (abortSignal?.aborted) throw ...; fn()
\* and, past the loop, throw lastError || new Error('Retry failed')
Invoke ==
  /\ pc = "loop"
  /\ IF attempt > maxRetries
     THEN /\ Raise(IF lastError # NoError THEN lastError
                   ELSE Err("Error", "Retry failed"))
          /\ calls' = calls /\ ev' = "LoopExit"
     ELSE IF aborted
     THEN Raise(RequestAborted) /\ calls' = calls /\ ev' = "AbortedAtLoop"
     ELSE pc' = "running" /\ result' = result /\ calls' = calls + 1
          /\ ev' = "Invoke"
  /\ yielded' = 0
  /\ UNCHANGED <<mode, maxRetries, baseDelay, onRetry, aborted, attempt,
                 lastError, hasYielded, obs, out>>

\* return await fn()
OperationResolves ==
  /\ mode = "one" /\ pc = "running"
  /\ \E v \in Values : result' = Returned(v)
  /\ pc' = "done" /\ ev' = "Resolve"
  /\ UNCHANGED <<mode, maxRetries, baseDelay, onRetry, aborted, attempt,
                 lastError, hasYielded, yielded, calls, obs, out>>

\* fn() rejects
OperationRejects ==
  /\ mode = "one" /\ pc = "running"
  /\ \E e \in Errors : WithRetryCatch(e)
  /\ ev' = "Fail"
  /\ UNCHANGED <<mode, maxRetries, baseDelay, onRetry, aborted, attempt,
                 hasYielded, yielded, calls, out>>

\* (mutant) what a failed attempt delivered is withdrawn when the next
\* attempt delivers its first element
DeliverWithdrawing(chunk) ==
  /\ hasYielded' = TRUE
  /\ out' = IF yielded = 0 THEN <<chunk>> ELSE Append(out, chunk)

\* for await (const chunk of generator) { hasYielded = true; yield chunk; }
Deliver(chunk) ==
  /\ hasYielded' = TRUE
  /\ out' = Append(out, chunk)

ProducerYields ==
  /\ mode = "gen" /\ pc = "running"
  /\ yielded < MaxYield
  /\ Deliver(<<calls, yielded + 1>>)
  /\ yielded' = yielded + 1
  /\ ev' = "Yield"
  /\ UNCHANGED <<mode, maxRetries, baseDelay, onRetry, aborted, pc, attempt,
                 lastError, calls, obs, result>>

\* the producer is exhausted: return
ProducerReturns ==
  /\ mode = "gen" /\ pc = "running"
  /\ pc' = "done" /\ result' = Returned("")
  /\ ev' = "Return"
  /\ UNCHANGED <<mode, maxRetries, baseDelay, onRetry, aborted, attempt,
                 lastError, hasYielded, yielded, calls, obs, out>>

\* the producer throws
ProducerThrows ==
  /\ mode = "gen" /\ pc = "running"
  /\ \E e \in Errors : WithRetryGeneratorCatch(e)
  /\ ev' = "Fail"
  /\ UNCHANGED <<mode, maxRetries, baseDelay, onRetry, aborted, attempt,
                 hasYielded, yielded, calls, out>>

\* (mutant) attempt++ is forgotten
DelayTimerNoIncrement ==
  /\ pc = "delay"
  /\ pc' = "loop" /\ ev' = "DelayTimer"
  /\ UNCHANGED <<mode, maxRetries, baseDelay, onRetry, aborted, attempt,
                 lastError, hasYielded, yielded, calls, obs, out, result>>

\* delay(): the setTimeout callback resolves; attempt++
DelayTimer ==
  /\ pc = "delay"
  /\ attempt' = attempt + 1
  /\ pc' = "loop" /\ ev' = "DelayTimer"
  /\ UNCHANGED <<mode, maxRetries, baseDelay, onRetry, aborted, lastError,
                 hasYielded, yielded, calls, obs, out, result>>

\* (mutant) delay() registers no abort listener
AbortSignalNoListener ==
  /\ ~aborted /\ pc # "done"
  /\ aborted' = TRUE /\ ev' = "Abort"
  /\ UNCHANGED <<mode, maxRetries, baseDelay, onRetry, pc, attempt, lastError,
                 hasYielded, yielded, calls, obs, out, result>>

\* The cancellation token is cancelled.  During a delay() the abort handler
\* clears the timer and rejects; the wrapper throws 'Request aborted'.
AbortSignal ==
  /\ ~aborted /\ pc # "done"
  /\ aborted' = TRUE
  /\ IF pc = "delay"
     THEN Raise(RequestAborted) /\ ev' = "AbortInDelay"
     ELSE pc' = pc /\ result' = result /\ ev' = "Abort"
  /\ UNCHANGED <<mode, maxRetries, baseDelay, onRetry, attempt, lastError,
                 hasYielded, yielded, calls, obs, out>>

\* no adapter is part of a bare withRetry / withRetryGenerator call
NoStream ==
  /\ adapter = "none" /\ apc = "none" /\ pending = <<>> /\ after = "none"
  /\ reads = 0 /\ hasToolCalls = FALSE /\ usageData = FALSE
  /\ reasoningStarted = FALSE /\ reasoningData = FALSE
  /\ lines = <<>> /\ sawDone = FALSE /\ touched = <<>>
  /\ input = [done |-> FALSE, dirty |-> FALSE, lines |-> <<>>]

\* the block indices of the events
BlockIndices == {0, 1}

\* usageData: undefined, or {prompt_tokens, completion_tokens, total_tokens}
NoUsage == [set |-> FALSE, prompt_tokens |-> 0, completion_tokens |-> 0,
            total_tokens |-> 0]
Usage(prompt, completion) ==
  [set |-> TRUE, prompt_tokens |-> prompt, completion_tokens |-> completion,
   total_tokens |-> prompt + completion]

\* no Anthropic dispatch is part of the run
NoDispatch ==
  /\ sseEvents = <<>> /\ cursor = 0 /\ finished = FALSE
  /\ toolCallsBuffer = <<>> /\ blockIndexToId = [i \in BlockIndices |-> ""]
  /\ completedToolBlocks = {} /\ usageRecord = NoUsage /\ emitted = <<>>
  /\ currentFunctionCallId = ""

\* the result of a call that has not returned
NoResult == [kind |-> "none", success |-> FALSE, data |-> "", wasFixed |-> FALSE]

\* parseJsonWithFix is not called on its own
NoRepair ==
  /\ repairCase = [valid |-> "", malformation |-> "none", jsonString |-> ""]
  /\ repairResult = NoResult

\* no streaming call resolves its configuration
NoConfig ==
  /\ streamingCall = [adapter |-> "none", configProfile |-> FALSE, maxRetries |-> 0]
  /\ storedProfile = "missing" /\ config = "unset"
  /\ requests = <<>> /\ callPc = "none"

\* no guard is part of a bare withRetry / withRetryGenerator call
NoGuard ==
  /\ now = 0 /\ idleTimeoutMs = 0 /\ onTimeout = "none"
  /\ isAbandoned = FALSE /\ lastChunkTime = 0 /\ idleTimer = "null"
  /\ timeoutError = NoError /\ timeoutErrorBy = "none" /\ nextCheck = 0
  /\ readerCancels = FALSE /\ lastTouchAt = -1

InitRetry ==
  /\ NoGuard /\ NoStream /\ NoDispatch /\ NoRepair /\ NoConfig
  /\ mode \in {"one", "gen"}
  /\ \/ maxRetries \in 0..MaxRetriesBound
     \/ mode = "one" /\ maxRetries = DefaultMaxRetries
  /\ baseDelay \in BaseDelays
  /\ onRetry \in BOOLEAN
  /\ aborted \in BOOLEAN
  /\ pc = "loop" /\ attempt = 0 /\ lastError = NoError
  /\ hasYielded = FALSE /\ yielded = 0 /\ calls = 0
  /\ obs = <<>> /\ out = <<>> /\ result = Pending /\ ev = "Init"

NextRetry ==
  \/ Invoke /\ UNCHANGED <<guardVars, streamVars, dispatchVars, repairVars, configVars>>
  \/ OperationResolves /\ UNCHANGED <<guardVars, streamVars, dispatchVars, repairVars, configVars>>
  \/ OperationRejects /\ UNCHANGED <<guardVars, streamVars, dispatchVars, repairVars, configVars>>
  \/ ProducerYields /\ UNCHANGED <<guardVars, streamVars, dispatchVars, repairVars, configVars>>
  \/ ProducerReturns /\ UNCHANGED <<guardVars, streamVars, dispatchVars, repairVars, configVars>>
  \/ ProducerThrows /\ UNCHANGED <<guardVars, streamVars, dispatchVars, repairVars, configVars>>
  \/ DelayTimer /\ UNCHANGED <<guardVars, streamVars, dispatchVars, repairVars, configVars>>
  \/ AbortSignal /\ UNCHANGED <<guardVars, streamVars, dispatchVars, repairVars, configVars>>

SpecRetry == InitRetry /\ [][NextRetry]_vars

(***************************************************************************)
(* The idle-timeout guard: createIdleTimeoutGuard, as a decode loop uses   *)
(* it.  Time is counted in ms and advances in steps of TimeStep.           *)
(***************************************************************************)
\* reader?.cancel().catch(() => {}) inside try/catch: attempted, failures
\* swallowed
CancelReader == readerCancels' = TRUE

\* what onTimeout() throws: the adapters' callbacks ("throws") throw the
\* idle-timeout error with the text of the default one; the callback of
\* another caller ("fails") throws an error of its own
OnTimeoutRaises(callback, ms) ==
  IF callback = "throws" THEN NoDataReceived(ms)
  ELSE Err("Error", "onTimeout failed")

\* (mutant) the breach test is Date.now() - lastChunkTime < idleTimeoutMs
IdleCheckStrict ==
  /\ idleTimer = "active"
  /\ now >= nextCheck
  /\ nextCheck' = now + CheckIntervalMs
  /\ IF isAbandoned \/ now - lastChunkTime < idleTimeoutMs
     THEN UNCHANGED <<isAbandoned, timeoutError, timeoutErrorBy, readerCancels>>
     ELSE /\ isAbandoned' = TRUE
          /\ CancelReader
          /\ IF onTimeout = "throws"
             THEN /\ timeoutError' = NoDataReceived(idleTimeoutMs)
                  /\ timeoutErrorBy' = "onTimeout"
             ELSE /\ timeoutError' = IF timeoutError = NoError
                                     THEN NoDataReceived(idleTimeoutMs)
                                     ELSE timeoutError
                  /\ timeoutErrorBy' = IF timeoutError = NoError
                                       THEN "default" ELSE timeoutErrorBy
  /\ UNCHANGED <<now, idleTimeoutMs, onTimeout, lastChunkTime, idleTimer,
                 lastTouchAt>>

\* (mutant) no default error is stored: only a throwing callback sets one
IdleCheckNoDefaultError ==
  /\ idleTimer = "active"
  /\ now >= nextCheck
  /\ nextCheck' = now + CheckIntervalMs
  /\ IF isAbandoned \/ now - lastChunkTime <= idleTimeoutMs
     THEN UNCHANGED <<isAbandoned, timeoutError, timeoutErrorBy, readerCancels>>
     ELSE /\ isAbandoned' = TRUE
          /\ CancelReader
          /\ IF onTimeout = "throws"
             THEN /\ timeoutError' = NoDataReceived(idleTimeoutMs)
                  /\ timeoutErrorBy' = "onTimeout"
             ELSE UNCHANGED <<timeoutError, timeoutErrorBy>>
  /\ UNCHANGED <<now, idleTimeoutMs, onTimeout, lastChunkTime, idleTimer,
                 lastTouchAt>>

\* (mutant) the catch around onTimeout() keeps the error already stored
IdleCheckAtKeepsDefault(t) ==
  /\ nextCheck' = t + CheckIntervalMs
  /\ IF isAbandoned \/ t - lastChunkTime <= idleTimeoutMs
     THEN UNCHANGED <<isAbandoned, timeoutError, timeoutErrorBy, readerCancels>>
     ELSE /\ isAbandoned' = TRUE
          /\ CancelReader
          /\ timeoutError' = IF timeoutError = NoError
                             THEN NoDataReceived(idleTimeoutMs)
                             ELSE timeoutError
          /\ timeoutErrorBy' = IF timeoutError = NoError
                               THEN "default" ELSE timeoutErrorBy
  /\ UNCHANGED <<idleTimeoutMs, onTimeout, lastChunkTime, idleTimer,
                 lastTouchAt>>

\* The body of the setInterval callback, run at time t.  Nothing in its try
\* block throws outside the inner try/catch blocks, so the outer catch is
\* never entered.
IdleCheckAt(t) ==
  /\ nextCheck' = t + CheckIntervalMs
  /\ IF isAbandoned \/ t - lastChunkTime <= idleTimeoutMs
     THEN UNCHANGED <<isAbandoned, timeoutError, timeoutErrorBy, readerCancels>>
     ELSE /\ isAbandoned' = TRUE
          /\ CancelReader
          /\ IF onTimeout # "none"
             THEN /\ timeoutError' = OnTimeoutRaises(onTimeout, idleTimeoutMs)
                  /\ timeoutErrorBy' = "onTimeout"
             ELSE /\ timeoutError' = IF timeoutError = NoError
                                     THEN NoDataReceived(idleTimeoutMs)
                                     ELSE timeoutError
                  /\ timeoutErrorBy' = IF timeoutError = NoError
                                       THEN "default" ELSE timeoutErrorBy
  /\ UNCHANGED <<idleTimeoutMs, onTimeout, lastChunkTime, idleTimer,
                 lastTouchAt>>

\* (mutant) the interval is never cleared: the callback runs when due
\* whatever idleTimer holds
IdleCheckNeverCleared ==
  /\ now >= nextCheck
  /\ IdleCheckAt(now)
  /\ now' = now

\* The setInterval callback runs when due and is scheduled again one
\* interval after it ran.
IdleCheck ==
  /\ idleTimer = "active"
  /\ now >= nextCheck
  /\ IdleCheckAt(now)
  /\ now' = now

\* Time passes.  A due callback of a live interval runs at most MaxTimerLag
\* late.
Tick ==
  /\ now + TimeStep <= MaxTime
  /\ idleTimer = "active" => now + TimeStep <= nextCheck + MaxTimerLag
  /\ now' = now + TimeStep
  /\ UNCHANGED <<idleTimeoutMs, onTimeout, isAbandoned, lastChunkTime,
                 idleTimer, timeoutError, timeoutErrorBy, nextCheck,
                 readerCancels, lastTouchAt>>

\* (mutant) touch() notes the call and leaves the clock of the guard alone
TouchKeepsClock ==
  /\ idleTimer = "active"
  /\ lastTouchAt' = now
  /\ UNCHANGED <<now, idleTimeoutMs, onTimeout, isAbandoned, idleTimer,
                 timeoutError, timeoutErrorBy, nextCheck, readerCancels,
                 lastChunkTime>>

\* (mutant) touch() also takes the abandoned flag back
TouchRevives ==
  /\ idleTimer = "active"
  /\ lastChunkTime' = now
  /\ lastTouchAt' = now
  /\ isAbandoned' = FALSE
  /\ UNCHANGED <<now, idleTimeoutMs, onTimeout, idleTimer, timeoutError,
                 timeoutErrorBy, nextCheck, readerCancels>>

\* touch: () => { lastChunkTime = Date.now(); }, called by the decode loop
\* while its guard is not disposed
Touch ==
  /\ idleTimer = "active"
  /\ lastChunkTime' = now
  /\ lastTouchAt' = now
  /\ UNCHANGED <<now, idleTimeoutMs, onTimeout, isAbandoned, idleTimer,
                 timeoutError, timeoutErrorBy, nextCheck, readerCancels>>

\* (mutant) abandon() cancels the reader and leaves the flag alone
AbandonOnlyCancels == isAbandoned' = isAbandoned /\ CancelReader

\* abandon()
Abandon == isAbandoned' = TRUE /\ CancelReader

\* dispose()
Dispose == idleTimer' = "null"

\* The decode loop finds the token cancelled: guard.abandon(); return; and
\* the finally block disposes the guard.
CancelledBeforeRead ==
  /\ idleTimer = "active"
  /\ Abandon /\ Dispose
  /\ UNCHANGED <<now, idleTimeoutMs, onTimeout, lastChunkTime, timeoutError,
                 timeoutErrorBy, nextCheck, lastTouchAt>>

\* The decode loop ends (stream end, [DONE], a thrown error, the consumer's
\* return()): the finally block disposes the guard.
LoopEnds ==
  /\ idleTimer = "active"
  /\ Dispose
  /\ UNCHANGED <<now, idleTimeoutMs, onTimeout, isAbandoned, lastChunkTime,
                 timeoutError, timeoutErrorBy, nextCheck, readerCancels,
                 lastTouchAt>>

\* no retry wrapper is part of a bare guard
NoRetry ==
  /\ mode = "gen" /\ maxRetries = 0 /\ baseDelay = DefaultBaseDelay
  /\ onRetry = FALSE /\ aborted = FALSE /\ pc = "running" /\ attempt = 0
  /\ lastError = NoError /\ hasYielded = FALSE /\ yielded = 0 /\ calls = 1
  /\ obs = <<>> /\ out = <<>> /\ result = Pending /\ ev = "Init"

\* the state createIdleTimeoutGuard returns in
InitGuard ==
  /\ NoRetry /\ NoStream /\ NoDispatch /\ NoRepair /\ NoConfig
  /\ now = 0
  /\ idleTimeoutMs \in Thresholds
  /\ onTimeout \in OnTimeoutOptions
  /\ isAbandoned = FALSE /\ lastChunkTime = 0 /\ idleTimer = "active"
  /\ timeoutError = NoError /\ timeoutErrorBy = "none"
  /\ nextCheck = CheckIntervalMs
  /\ readerCancels = FALSE /\ lastTouchAt = -1

NextGuard ==
  \/ Tick /\ UNCHANGED <<retryVars, streamVars, dispatchVars, repairVars, configVars>>
  \/ IdleCheck /\ UNCHANGED <<retryVars, streamVars, dispatchVars, repairVars, configVars>>
  \/ Touch /\ UNCHANGED <<retryVars, streamVars, dispatchVars, repairVars, configVars>>
  \/ CancelledBeforeRead /\ UNCHANGED <<retryVars, streamVars, dispatchVars, repairVars, configVars>>
  \/ LoopEnds /\ UNCHANGED <<retryVars, streamVars, dispatchVars, repairVars, configVars>>

SpecGuard == InitGuard /\ [][NextGuard]_vars

\* The guard on its own, in the hands of any caller: onTimeout may also be
\* a callback that throws an error of the caller's.
InitGuardAlone ==
  /\ NoRetry /\ NoStream /\ NoDispatch /\ NoRepair /\ NoConfig
  /\ now = 0
  /\ idleTimeoutMs \in Thresholds
  /\ onTimeout \in OnTimeoutOptions \cup {"fails"}
  /\ isAbandoned = FALSE /\ lastChunkTime = 0 /\ idleTimer = "active"
  /\ timeoutError = NoError /\ timeoutErrorBy = "none"
  /\ nextCheck = CheckIntervalMs
  /\ readerCancels = FALSE /\ lastTouchAt = -1

\* the caller calls abandon(), at any time
AbandonCall ==
  /\ Abandon
  /\ UNCHANGED <<now, idleTimeoutMs, onTimeout, lastChunkTime, idleTimer,
                 timeoutError, timeoutErrorBy, nextCheck, lastTouchAt>>

\* the caller calls dispose(), at any time: if (idleTimer) { clearInterval(
\* idleTimer); idleTimer = null; }, so a second call finds null and does
\* nothing
DisposeCall ==
  /\ Dispose
  /\ UNCHANGED <<now, idleTimeoutMs, onTimeout, isAbandoned, lastChunkTime,
                 timeoutError, timeoutErrorBy, nextCheck, readerCancels,
                 lastTouchAt>>

\* every interleaving of the timer with the caller's touch(), abandon() and
\* dispose()
NextGuardAlone ==
  \/ Tick /\ UNCHANGED <<retryVars, streamVars, dispatchVars, repairVars, configVars>>
  \/ IdleCheck /\ UNCHANGED <<retryVars, streamVars, dispatchVars, repairVars, configVars>>
  \/ Touch /\ UNCHANGED <<retryVars, streamVars, dispatchVars, repairVars, configVars>>
  \/ AbandonCall /\ UNCHANGED <<retryVars, streamVars, dispatchVars, repairVars, configVars>>
  \/ DisposeCall /\ UNCHANGED <<retryVars, streamVars, dispatchVars, repairVars, configVars>>

SpecGuardAlone == InitGuardAlone /\ [][NextGuardAlone]_vars

(***************************************************************************)
(* The provider adapters: createStreamingAnthropicCompletion,              *)
(* createStreamingChatCompletion, createStreamingResponse and              *)
(* createStreamingGeminiCompletion.  Each is withRetryGenerator around a   *)
(* producer that issues the request, decodes the body chunk by chunk       *)
(* under an idle-timeout guard and yields the unified events.  A chunk     *)
(* carries the lines of one or more SSE frames; a step of the producer     *)
(* runs from one suspension point (await fetch, await reader.read(),       *)
(* yield) to the next.                                                     *)
(***************************************************************************)
\* The lines of a response body, by what the decode loop and the adapter's
\* dispatch do with them:
\*   text          a text fragment that is not empty
\*   emptyText     anthropic: a content_block_delta text_delta whose text
\*                 is ""
\*   thinking      a reasoning-text fragment that is not empty
\*   thinkingStart the marker that opens a reasoning block (anthropic
\*                 content_block_start thinking, responses
\*                 response.output_item.added reasoning)
\*   toolStart     the marker that opens a tool call (anthropic
\*                 content_block_start tool_use, responses
\*                 response.output_item.added function_call)
\*   tool          tool-call content (anthropic input_json_delta, responses
\*                 response.function_call_arguments.delta, chat
\*                 delta.tool_calls, gemini part.functionCall)
\*   textTool      gemini: a chunk whose parts are a text and a functionCall
\*   reasoning     responses: response.output_item.done of a reasoning item
\*   usage         a usage record (responses: response.completed with usage)
\*   usageZero     gemini: usageMetadata with totalTokenCount 0
\*   finish        chat: a choice with finish_reason; responses:
\*                 response.completed without usage
\*   other         a data frame that parses and that no branch of the
\*                 dispatch handles (ping, message_stop, a delta without
\*                 content), a comment line or an event: line
\*   garbled       a data frame whose payload parseJsonWithFix cannot parse
\*   [DONE]        the sentinel line
Frames(a) ==
  {"text", "thinking", "tool", "usage", "other", "garbled", "[DONE]"}
  \cup (IF a = "anthropic"
        THEN {"emptyText", "thinkingStart", "toolStart"} ELSE {})
  \cup (IF a = "responses"
        THEN {"thinkingStart", "toolStart", "reasoning", "finish"} ELSE {})
  \cup (IF a = "chat" THEN {"finish"} ELSE {})
  \cup (IF a = "gemini" THEN {"textTool", "usageZero"} ELSE {})

\* what reader.read() resolves with: {done: false, value} with the complete
\* lines the chunk adds to the buffer, or {done: true} with a line buffer
\* that is blank or not (dirty)
Chunk(ls) == [done |-> FALSE, dirty |-> FALSE, lines |-> ls]
EndOfStream(dirty) == [done |-> TRUE, dirty |-> dirty, lines |-> <<>>]
NoInput == [done |-> FALSE, dirty |-> FALSE, lines |-> <<>>]

\* the chunks of at most MaxLines lines, and the chunks that end a stream
\* with one more line: a text frame, MaxLines - 1 frames and the sentinel
Chunks(a) ==
  UNION { [1..n -> Frames(a)] : n \in 1..MaxLines }
  \cup { <<"text">> \o ls \o <<"[DONE]">> :
           ls \in [1..(MaxLines - 1) -> Frames(a)] }

ReadResults(a) ==
  (IF reads < MaxReads THEN { Chunk(ls) : ls \in Chunks(a) } ELSE {})
  \cup { EndOfStream(d) : d \in BOOLEAN }

\* hasBusinessDelta in the decode loop: whether the frame calls guard.touch()
HasBusinessDelta(a, frame) ==
  frame \in {"text", "thinking", "tool", "textTool", "toolStart"}

\* the producer's locals a run of the decode loop works on, and the frames
\* it has called guard.touch() for
Locals ==
  [htc |-> hasToolCalls, us |-> usageData, rd |-> reasoningData,
   rs |-> reasoningStarted, done |-> sawDone, touched |-> <<>>]

\* the events the dispatch yields for a frame, in order
DispatchEvents(a, frame, l) ==
  CASE frame = "text" -> <<"content">>
    [] frame = "emptyText" -> <<"content">>
    [] frame = "thinking" ->
         IF a = "chat" /\ ~l.rs
         THEN <<"reasoning_started", "reasoning_delta">>
         ELSE <<"reasoning_delta">>
    [] frame = "thinkingStart" -> <<"reasoning_started">>
    [] frame = "toolStart" ->
         IF a = "anthropic" THEN <<"tool_call_delta">> ELSE <<>>
    [] frame = "tool" ->
         IF a \in {"anthropic", "responses"} /\ ~l.htc
         THEN <<>> ELSE <<"tool_call_delta">>
    [] frame = "textTool" -> <<"content", "tool_call_delta">>
    [] OTHER -> <<>>

\* what the dispatch of a frame assigns to the producer's locals
DispatchLocals(a, frame, l) ==
  [l EXCEPT
     !.htc = l.htc \/ frame = "toolStart"
             \/ (a \in {"chat", "gemini"} /\ frame \in {"tool", "textTool"}),
     !.us = CASE frame = "usage" -> TRUE
              [] frame = "usageZero" -> FALSE
              [] OTHER -> l.us,
     !.rd = l.rd \/ frame = "reasoning",
     !.rs = l.rs \/ (a = "chat" /\ frame = "thinking")]

\* where the dispatch leaves the decode loop: chat breaks on finish_reason,
\* responses on response.completed
DispatchThen(a, frame) ==
  IF \/ a = "chat" /\ frame = "finish"
     \/ a = "responses" /\ frame \in {"finish", "usage"}
  THEN "final" ELSE "loop"

\* (mutant) a reasoning_data event is yielded by every adapter, with or
\* without reasoning data
FinalEventsAnyReasoningData(htc, rd, us) ==
  (IF htc THEN <<"tool_calls">> ELSE <<>>)
  \o <<"reasoning_data">>
  \o (IF us THEN <<"usage">> ELSE <<>>)
  \o <<"done">>

\* the events after the decode loop: tool_calls, (responses: reasoning_data,)
\* usage, done
FinalEvents(htc, rd, us) ==
  (IF htc THEN <<"tool_calls">> ELSE <<>>)
  \o (IF adapter = "responses" /\ rd THEN <<"reasoning_data">> ELSE <<>>)
  \o (IF us THEN <<"usage">> ELSE <<>>)
  \o <<"done">>

\* gemini yields content and reasoning_delta only if (!guard.isAbandoned());
\* the other adapters' dispatch and every final event are yielded unguarded
Unguarded(events) ==
  LET Passes(e) == ~(adapter = "gemini" /\ isAbandoned
                     /\ e \in {"content", "reasoning_delta"})
  IN  SelectSeq(events, Passes)

\* a payload that stands for the frame: the garbled one breaks off inside
\* a string, which no repair mends
Payload(frame) ==
  IF frame = "garbled" THEN "{\"delta\":{\"text\":\"hel"
  ELSE "{\"type\":\"" \o frame \o "\"}"

\* parseJsonWithFix(data, {toolName, logWarning: false, logError: true})
\* .success for the payload of every frame, computed once
PayloadParses ==
  [frame \in UNION { Frames(a) : a \in Adapters } |->
     ParseJsonWithFix(Payload(frame), "undefined").success]

\* (mutant) a payload that did not parse ends the loop over the chunk
NextLinesNone(rest) == <<>>

\* if (parseResult.success) { ... } has no else: after a payload that did
\* not parse the loop over the lines goes on with the next line
NextLines(rest) == rest

RECURSIVE DecodeLines(_, _)
\* for (const line of lines) { ... }: the loop over the lines of a chunk,
\* from line ls[1] up to the first yield, to the end of the chunk or to the
\* statement that leaves it.  The sentinel line makes parseSSEStream return
\* (then: "final"), but only breaks gemini's loop over the lines.  A payload
\* that does not parse is skipped.  parseSSEStream calls touch() and then
\* passes the frame on only if (!guard.isAbandoned()); gemini dispatches
\* every frame.
DecodeLines(ls, l) ==
  IF ls = <<>>
  THEN [then |-> "loop", events |-> <<>>, lines |-> <<>>, l |-> l]
  ELSE
    LET frame == Head(ls)
        lt == IF HasBusinessDelta(adapter, frame)
              THEN [l EXCEPT !.touched = Append(l.touched, frame)] ELSE l
        ld == DispatchLocals(adapter, frame, lt)
        events == Unguarded(DispatchEvents(adapter, frame, l))
        then == DispatchThen(adapter, frame)
    IN  IF frame = "[DONE]"
        THEN [then |-> IF adapter = "gemini" THEN "loop" ELSE "final",
              events |-> <<>>, lines |-> <<>>,
              l |-> [l EXCEPT !.done = TRUE]]
        ELSE IF ~PayloadParses[frame]
        THEN DecodeLines(NextLines(Tail(ls)), l)
        ELSE IF adapter # "gemini" /\ isAbandoned
        THEN DecodeLines(Tail(ls), lt)
        ELSE IF then = "final"
        THEN [then |-> "final", events |-> events, lines |-> <<>>, l |-> ld]
        ELSE IF events # <<>>
        THEN [then |-> "loop", events |-> events, lines |-> Tail(ls),
              l |-> ld]
        ELSE DecodeLines(Tail(ls), ld)

\* yield events[1] and stay suspended there
YieldFirst(events, cont) ==
  /\ Deliver(Head(events))
  /\ apc' = "yield" /\ pending' = Tail(events) /\ after' = cont
  /\ ev' = "Yield"
  /\ UNCHANGED <<pc, result, lastError, obs>>

\* const {done, value} = await reader.read()
AwaitRead ==
  /\ apc' = "read" /\ pending' = <<>> /\ after' = "loop"
  /\ ev' = "Read"
  /\ UNCHANGED <<out, hasYielded, pc, result, lastError, obs>>

\* the producer returns: withRetryGenerator's for await ends and it returns
ProducerEnds ==
  /\ apc' = "none" /\ pending' = <<>> /\ after' = "none"
  /\ pc' = "done" /\ result' = Returned("")
  /\ ev' = "Return"
  /\ UNCHANGED <<out, hasYielded, lastError, obs>>

\* the producer throws: withRetryGenerator's catch block
ProducerFails(error) ==
  /\ WithRetryGeneratorCatch(error)
  /\ apc' = "none" /\ pending' = <<>> /\ after' = "none"
  /\ ev' = "Fail"
  /\ UNCHANGED <<out, hasYielded>>

\* guard.touch() if the frame is a business delta
TouchIf(t) ==
  /\ lastChunkTime' = IF t THEN now ELSE lastChunkTime
  /\ lastTouchAt' = IF t THEN now ELSE lastTouchAt

\* (mutant) the decode loop is left without guard.dispose()
LoopLeftKeepsTimer(t) ==
  /\ TouchIf(t)
  /\ UNCHANGED <<now, idleTimeoutMs, onTimeout, isAbandoned, timeoutError,
                 timeoutErrorBy, nextCheck, readerCancels, idleTimer>>

\* the decode loop is left (break, return or throw): finally guard.dispose()
LoopLeft(t) ==
  /\ TouchIf(t) /\ Dispose
  /\ UNCHANGED <<now, idleTimeoutMs, onTimeout, isAbandoned, timeoutError,
                 timeoutErrorBy, nextCheck, readerCancels>>

\* the code after the decode loop: yield tool_calls, usage, done
AfterLoop(t, htc, rd, us) ==
  /\ LoopLeft(t)
  /\ YieldFirst(FinalEvents(htc, rd, us), "return")

\* The head of the decode loop:
\*   if (abortSignal?.aborted) { guard.abandon(); return; }
\*   const {done, value} = await reader.read();
\* The return leaves parseSSEStream, and the adapter's for await with it; in
\* gemini, whose loop is in the producer itself, it leaves the producer.
LoopHead(t, htc, rd, us) ==
  IF aborted
  THEN /\ TouchIf(t) /\ Abandon /\ Dispose
       /\ UNCHANGED <<now, idleTimeoutMs, onTimeout, timeoutError,
                      timeoutErrorBy, nextCheck>>
       /\ IF adapter = "gemini" THEN ProducerEnds
          ELSE YieldFirst(FinalEvents(htc, rd, us), "return")
  ELSE /\ TouchIf(t)
       /\ UNCHANGED <<now, idleTimeoutMs, onTimeout, isAbandoned, idleTimer,
                      timeoutError, timeoutErrorBy, nextCheck, readerCancels>>
       /\ AwaitRead

\* the producer's locals and the record of the run are left as they are
LocalsUnchanged ==
  /\ UNCHANGED <<hasToolCalls, usageData, reasoningStarted, reasoningData,
                 sawDone, lines>>
  /\ touched' = <<>>

\* the producer stays where it is suspended while a timer or the
\* cancellation token acts
ProducerWaits ==
  /\ UNCHANGED <<adapter, apc, pending, after, reads>>
  /\ LocalsUnchanged /\ input' = NoInput

\* the decode loop runs the lines ls of the chunk it holds
Decode(ls) ==
  LET Decoded(r) ==
        LET t == r.l.touched # <<>>
        IN  /\ hasToolCalls' = r.l.htc /\ usageData' = r.l.us
            /\ reasoningData' = r.l.rd /\ reasoningStarted' = r.l.rs
            /\ sawDone' = r.l.done /\ touched' = r.l.touched
            /\ lines' = r.lines
            /\ IF r.events # <<>>
               THEN /\ YieldFirst(r.events, r.then)
                    /\ TouchIf(t)
                    /\ UNCHANGED <<now, idleTimeoutMs, onTimeout, isAbandoned,
                                   idleTimer, timeoutError, timeoutErrorBy,
                                   nextCheck, readerCancels>>
               ELSE IF r.then = "final"
               THEN AfterLoop(t, r.l.htc, r.l.rd, r.l.us)
               ELSE LoopHead(t, r.l.htc, r.l.rd, r.l.us)
  IN  Decoded(DecodeLines(ls, Locals))

\* withRetryGenerator invokes the producer, which runs up to await fetch()
StartAttempt ==
  /\ Invoke
  /\ apc' = IF pc' = "running" THEN "fetch" ELSE "none"
  /\ pending' = <<>> /\ after' = "none"
  /\ hasToolCalls' = FALSE /\ usageData' = FALSE
  /\ reasoningStarted' = FALSE /\ reasoningData' = FALSE
  /\ lines' = <<>> /\ sawDone' = FALSE /\ touched' = <<>>
  /\ input' = NoInput
  /\ UNCHANGED <<adapter, reads, guardVars>>

\* createIdleTimeoutGuard({reader, idleTimeoutMs, onTimeout})
CreateGuard ==
  /\ isAbandoned' = FALSE /\ lastChunkTime' = now /\ idleTimer' = "active"
  /\ timeoutError' = NoError /\ timeoutErrorBy' = "none"
  /\ nextCheck' = now + CheckIntervalMs
  /\ readerCancels' = FALSE /\ lastTouchAt' = -1
  /\ UNCHANGED <<now, idleTimeoutMs, onTimeout>>

\* fetch() resolves: a response that is not ok is thrown as an API error;
\* otherwise the guard is created and the first read is awaited
FetchResolves ==
  /\ pc = "running" /\ apc = "fetch" /\ ~aborted
  /\ \E response \in HttpResponses :
       IF response.status = 200
       THEN CreateGuard /\ AwaitRead
       ELSE ProducerFails(ApiError(adapter, response)) /\ UNCHANGED guardVars
  /\ UNCHANGED <<mode, maxRetries, baseDelay, onRetry, aborted, attempt,
                 yielded, calls>>
  /\ UNCHANGED <<adapter, reads>> /\ input' = NoInput
  /\ LocalsUnchanged

\* fetch() rejects because the token it was given is cancelled; the catch
\* around it throws a new Error with the fetch-failed message
FetchRejects ==
  /\ pc = "running" /\ apc = "fetch" /\ aborted
  /\ ProducerFails(FetchFailed(adapter, TransportAbort))
  /\ UNCHANGED <<mode, maxRetries, baseDelay, onRetry, aborted, attempt,
                 yielded, calls>>
  /\ UNCHANGED <<adapter, reads>> /\ input' = NoInput
  /\ LocalsUnchanged
  /\ UNCHANGED guardVars

\* reader.read() resolves.  The loop first throws a captured timeout error,
\* then skips the chunk of an abandoned guard, then handles the end of the
\* body, and otherwise splits the chunk into lines and decodes them.
ReadResolves ==
  /\ pc = "running" /\ apc = "read"
  /\ ~aborted \/ readerCancels
  /\ \E r \in ReadResults(adapter) :
       /\ input' = r
       /\ IF timeoutError # NoError
          THEN /\ ProducerFails(timeoutError) /\ LoopLeft(FALSE)
               /\ LocalsUnchanged /\ UNCHANGED reads
          ELSE IF isAbandoned
          THEN /\ LoopHead(FALSE, hasToolCalls, reasoningData, usageData)
               /\ LocalsUnchanged /\ UNCHANGED reads
          ELSE IF r.done /\ ~r.dirty
          THEN /\ AfterLoop(FALSE, hasToolCalls, reasoningData, usageData)
               /\ LocalsUnchanged /\ UNCHANGED reads
          ELSE IF r.done
          THEN /\ ProducerFails(TerminatedUnexpectedly(adapter))
               /\ LoopLeft(FALSE)
               /\ LocalsUnchanged /\ UNCHANGED reads
          ELSE /\ reads' = reads + 1
               /\ Decode(r.lines)
  /\ UNCHANGED <<mode, maxRetries, baseDelay, onRetry, aborted, attempt,
                 yielded, calls, adapter>>

\* reader.read() rejects: the transport failed, or the token the request
\* was given is cancelled
ReadRejects ==
  /\ pc = "running" /\ apc = "read"
  /\ ~readerCancels
  /\ ProducerFails(IF aborted THEN TransportAbort ELSE TransportTerminated)
  /\ LoopLeft(FALSE)
  /\ UNCHANGED <<mode, maxRetries, baseDelay, onRetry, aborted, attempt,
                 yielded, calls>>
  /\ UNCHANGED <<adapter, reads>> /\ input' = NoInput
  /\ LocalsUnchanged

\* The caller asks for the next event: the producer goes on from its yield.
Resume ==
  /\ pc = "running" /\ apc = "yield"
  /\ LET rest == Unguarded(pending)
     IN  IF rest # <<>>
         THEN YieldFirst(rest, after) /\ UNCHANGED guardVars
              /\ LocalsUnchanged
         ELSE CASE after = "loop" -> Decode(lines)
                [] after = "final" ->
                     /\ AfterLoop(FALSE, hasToolCalls, reasoningData,
                                  usageData)
                     /\ LocalsUnchanged
                [] after = "return" ->
                     ProducerEnds /\ UNCHANGED guardVars /\ LocalsUnchanged
  /\ UNCHANGED <<mode, maxRetries, baseDelay, onRetry, aborted, attempt,
                 yielded, calls>>
  /\ UNCHANGED <<adapter, reads>> /\ input' = NoInput

\* The caller stops early: it calls return() on the generator it iterates,
\* which is suspended at its yield inside for await.  The for await closes
\* the producer, the producer's own for await closes parseSSEStream, and
\* the finally block of the decode loop, if the loop has not been left,
\* disposes the guard.  Nothing is caught and nothing is retried.
ConsumerReturns ==
  /\ pc = "running" /\ apc = "yield"
  /\ pc' = "done" /\ ev' = "Close"
  /\ result' = [kind |-> "closed", value |-> "", error |-> NoError]
  /\ apc' = "none" /\ pending' = <<>> /\ after' = "none"
  /\ Dispose
  /\ UNCHANGED <<mode, maxRetries, baseDelay, onRetry, aborted, attempt,
                 lastError, hasYielded, yielded, calls, obs, out>>
  /\ UNCHANGED <<now, idleTimeoutMs, onTimeout, isAbandoned, lastChunkTime,
                 timeoutError, timeoutErrorBy, nextCheck, readerCancels,
                 lastTouchAt>>
  /\ UNCHANGED <<adapter, reads>> /\ input' = NoInput
  /\ LocalsUnchanged

\* The stream stays silent: while the producer is suspended (at a read or
\* at a yield) time passes until the guard's next check is due and the
\* threshold is exceeded, and the check runs.
Stall ==
  /\ idleTimer = "active" /\ ~isAbandoned
  /\ LET breach == lastChunkTime + idleTimeoutMs + TimeStep
         due == IF nextCheck > breach THEN nextCheck ELSE breach
     IN  now <= due /\ now' = due /\ IdleCheckAt(due)

\* idleTimeoutMs = (config.streamIdleTimeoutSec ?? 180) * 1000, here two
\* TimeStep units
StreamIdleTimeoutMs == 2 * TimeStep

\* a streaming call of one adapter, before withRetryGenerator's first
\* iteration
InitStream ==
  /\ NoDispatch /\ NoRepair /\ NoConfig
  /\ adapter \in Adapters
  /\ apc = "none" /\ pending = <<>> /\ after = "none" /\ reads = 0
  /\ hasToolCalls = FALSE /\ usageData = FALSE
  /\ reasoningStarted = FALSE /\ reasoningData = FALSE
  /\ lines = <<>> /\ sawDone = FALSE /\ touched = <<>> /\ input = NoInput
  /\ mode = "gen"
  /\ maxRetries \in 0..1
  /\ baseDelay = DefaultBaseDelay
  /\ onRetry = TRUE
  /\ aborted = FALSE
  /\ pc = "loop" /\ attempt = 0 /\ lastError = NoError
  /\ hasYielded = FALSE /\ yielded = 0 /\ calls = 0
  /\ obs = <<>> /\ out = <<>> /\ result = Pending /\ ev = "Init"
  /\ now = 0 /\ idleTimeoutMs = StreamIdleTimeoutMs /\ onTimeout = "throws"
  /\ isAbandoned = FALSE /\ lastChunkTime = 0 /\ idleTimer = "null"
  /\ timeoutError = NoError /\ timeoutErrorBy = "none" /\ nextCheck = 0
  /\ readerCancels = FALSE /\ lastTouchAt = -1

NextStream ==
  \/ StartAttempt /\ UNCHANGED <<dispatchVars, repairVars, configVars>>
  \/ FetchResolves /\ UNCHANGED <<dispatchVars, repairVars, configVars>>
  \/ FetchRejects /\ UNCHANGED <<dispatchVars, repairVars, configVars>>
  \/ ReadResolves /\ UNCHANGED <<dispatchVars, repairVars, configVars>>
  \/ ReadRejects /\ UNCHANGED <<dispatchVars, repairVars, configVars>>
  \/ Resume /\ UNCHANGED <<dispatchVars, repairVars, configVars>>
  \/ ConsumerReturns /\ UNCHANGED <<dispatchVars, repairVars, configVars>>
  \/ DelayTimer /\ ProducerWaits /\ UNCHANGED <<guardVars, dispatchVars, repairVars, configVars>>
  \/ AbortSignal /\ ProducerWaits /\ UNCHANGED <<guardVars, dispatchVars, repairVars, configVars>>
  \/ Stall /\ ProducerWaits /\ UNCHANGED <<retryVars, dispatchVars, repairVars, configVars>>

SpecStream == InitStream /\ [][NextStream]_vars

(***************************************************************************)
(***************************************************************************)
(* The dispatch of createStreamingAnthropicCompletion with the payloads of *)
(* the events: the events parseSSEStream yields are dispatched one by one, *)
(* tool calls are assembled in toolCallsBuffer, and after the loop the     *)
(* tool_calls, usage and done events are emitted.                          *)
(***************************************************************************)
\* an event of the Anthropic stream; a field an event does not have is ""
\* (numbers: -1)
StreamEvent(type, index, kind, id, name, text, inputTokens, outputTokens) ==
  [type |-> type, index |-> index, kind |-> kind, id |-> id, name |-> name,
   text |-> text, input_tokens |-> inputTokens,
   output_tokens |-> outputTokens]

\* {type: 'content_block_start', index, content_block: {type: 'tool_use',
\* id, name}}
ToolUseStart(index, id, name) ==
  StreamEvent("content_block_start", index, "tool_use", id, name, "", -1, -1)

\* {type: 'content_block_delta', index, delta: {type: 'input_json_delta',
\* partial_json}}
InputJsonDelta(index, partialJson) ==
  StreamEvent("content_block_delta", index, "input_json_delta", "", "",
              partialJson, -1, -1)

\* {type: 'content_block_delta', index, delta: {type: 'text_delta', text}}
TextDelta(index, text) ==
  StreamEvent("content_block_delta", index, "text_delta", "", "", text,
              -1, -1)

\* {type: 'content_block_stop', index}
BlockStop(index) ==
  StreamEvent("content_block_stop", index, "", "", "", "", -1, -1)

\* {type: 'message_start', message: {usage: {input_tokens, output_tokens}}}
MessageStart(inputTokens, outputTokens) ==
  StreamEvent("message_start", -1, "", "", "", "", inputTokens, outputTokens)

\* {type: 'message_delta', usage: {output_tokens}}
MessageDelta(outputTokens) ==
  StreamEvent("message_delta", -1, "", "", "", "", -1, outputTokens)

\* the events a response is made of
StreamEvents ==
  { ToolUseStart(0, "t1", "f"),
    InputJsonDelta(0, "{\"a\":1"),
    InputJsonDelta(0, "}"),
    InputJsonDelta(0, "</parameter>"),
    TextDelta(1, "hi"),
    BlockStop(0),
    MessageStart(3, 1),
    MessageDelta(5) }

\* an event the adapter yields; a field an event does not have is empty
Yielded(type, delta, toolCalls, usage) ==
  [type |-> type, delta |-> delta, tool_calls |-> toolCalls, usage |-> usage]

RECURSIVE RemoveParameterTags(_)
\* jsonDelta.replace(/<\/?parameter[^>]*>/g, '')
RemoveParameterTags(s) ==
  IF s = "" THEN ""
  ELSE LET n == IF CharAt(s, 2) = "/" THEN 3 ELSE 2
           word == n + 8 <= Len(s) /\ SubSeq(s, n, n + 8) = "parameter"
           RECURSIVE TagEnd(_)
           TagEnd(i) == IF i > Len(s) THEN 0
                        ELSE IF CharAt(s, i) = ">" THEN i
                        ELSE TagEnd(i + 1)
           close == IF CharAt(s, 1) = "<" /\ word THEN TagEnd(n + 9) ELSE 0
       IN  IF close # 0 THEN RemoveParameterTags(From(s, close + 1))
           ELSE CharAt(s, 1) \o RemoveParameterTags(From(s, 2))

RECURSIVE Trim(_)
\* String.prototype.trim
Trim(s) ==
  IF s = "" THEN s
  ELSE IF IsSpace(CharAt(s, 1)) THEN Trim(From(s, 2))
  ELSE IF IsSpace(CharAt(s, Len(s))) THEN Trim(SubSeq(s, 1, Len(s) - 1))
  ELSE s

\* (mutant) the start of a tool block yields nothing
ToolBlockStartYieldsSilent(event) == <<>>

\* the start of a tool block yields the tool's name as a tool_call_delta
ToolBlockStartYields(event) ==
  <<Yielded("tool_call_delta", event.name, <<>>, NoUsage)>>

\* toolCallsBuffer.set(id, call): a Map keeps the place of a key it has
SetToolCall(buffer, call) ==
  IF \E j \in 1..Len(buffer) : buffer[j].id = call.id
  THEN [j \in 1..Len(buffer) |->
          IF buffer[j].id = call.id THEN call ELSE buffer[j]]
  ELSE Append(buffer, call)

\* the body of for await (const event of parseSSEStream(...)) for one
\* event: what it assigns and what it yields
Dispatch(event) ==
  LET toolId == IF event.index \in BlockIndices
                THEN blockIndexToId[event.index] ELSE ""
      cleanedDelta == RemoveParameterTags(event.text)
      same == [buffer |-> toolCallsBuffer, ids |-> blockIndexToId,
               completed |-> completedToolBlocks, usage |-> usageRecord,
               yields |-> <<>>]
  IN  CASE event.type = "content_block_start" /\ event.kind = "tool_use" ->
             [same EXCEPT
                !.ids = [blockIndexToId EXCEPT ![event.index] = event.id],
                !.buffer = SetToolCall(toolCallsBuffer,
                                       [id |-> event.id, name |-> event.name,
                                        arguments |-> ""]),
                !.yields = ToolBlockStartYields(event)]
        [] event.type = "content_block_start" /\ event.kind = "thinking" ->
             [same EXCEPT
                !.yields = <<Yielded("reasoning_started", "", <<>>, NoUsage)>>]
        [] event.type = "content_block_delta" /\ event.kind = "text_delta" ->
             [same EXCEPT
                !.yields = <<Yielded("content", event.text, <<>>, NoUsage)>>]
        [] event.type = "content_block_delta"
           /\ event.kind = "thinking_delta" ->
             [same EXCEPT
                !.yields = <<Yielded("reasoning_delta", event.text, <<>>,
                                     NoUsage)>>]
        [] event.type = "content_block_delta"
           /\ event.kind = "input_json_delta" ->
             IF /\ toolId # ""
                /\ \E j \in 1..Len(toolCallsBuffer) :
                     toolCallsBuffer[j].id = toolId
                /\ cleanedDelta # ""
             THEN [same EXCEPT
                     !.buffer =
                       [j \in 1..Len(toolCallsBuffer) |->
                          IF toolCallsBuffer[j].id = toolId
                          THEN [toolCallsBuffer[j] EXCEPT
                                  !.arguments = @ \o cleanedDelta]
                          ELSE toolCallsBuffer[j]],
                     !.yields = <<Yielded("tool_call_delta", cleanedDelta,
                                          <<>>, NoUsage)>>]
             ELSE same
        [] event.type = "content_block_stop" ->
             IF toolId # ""
             THEN [same EXCEPT !.completed = completedToolBlocks \cup {toolId}]
             ELSE same
        [] event.type = "message_start" ->
             IF event.input_tokens >= 0 \/ event.output_tokens >= 0
             THEN [same EXCEPT
                     !.usage = Usage(IF event.input_tokens > 0
                                     THEN event.input_tokens ELSE 0,
                                     IF event.output_tokens > 0
                                     THEN event.output_tokens ELSE 0)]
             ELSE same
        [] event.type = "message_delta" ->
             IF event.input_tokens >= 0 \/ event.output_tokens >= 0
             THEN [same EXCEPT
                     !.usage = Usage(IF event.input_tokens >= 0
                                     THEN event.input_tokens
                                     ELSE usageRecord.prompt_tokens,
                                     IF event.output_tokens > 0
                                     THEN event.output_tokens ELSE 0)]
             ELSE same
        [] OTHER -> same

\* (mutant) the assembled arguments are passed on as they are
FinalArgumentsRaw(arguments) == arguments

\* the arguments of a tool call as the tool_calls event carries them:
\* JSON.stringify(parseJsonWithFix(args.trim() || '{}',
\* {fallbackValue: {}}).data)
FinalArguments(arguments) ==
  LET args == IF Trim(arguments) = "" THEN "{}" ELSE Trim(arguments)
  IN  ParseJsonWithFix(args, "{}").data

\* the events after the loop: tool_calls if there are tool calls, usage if
\* usageData is set, done
FinalYields ==
  (IF toolCallsBuffer # <<>>
   THEN <<Yielded("tool_calls", "",
                  [j \in 1..Len(toolCallsBuffer) |->
                     [toolCallsBuffer[j] EXCEPT
                        !.arguments = FinalArguments(@)]],
                  NoUsage)>>
   ELSE <<>>)
  \o (IF usageRecord.set
      THEN <<Yielded("usage", "", <<>>, usageRecord)>> ELSE <<>>)
  \o <<Yielded("done", "", <<>>, NoUsage)>>

\* parseSSEStream yields the next event and the loop body runs on it
DispatchEvent ==
  /\ cursor < Len(sseEvents)
  /\ LET d == Dispatch(sseEvents[cursor + 1])
     IN  /\ toolCallsBuffer' = d.buffer /\ blockIndexToId' = d.ids
         /\ completedToolBlocks' = d.completed /\ usageRecord' = d.usage
         /\ emitted' = emitted \o d.yields
  /\ cursor' = cursor + 1
  /\ UNCHANGED <<sseEvents, finished, currentFunctionCallId>>

\* parseSSEStream ends: the code after the loop runs to the producer's end
StreamEnds ==
  /\ cursor = Len(sseEvents) /\ ~finished
  /\ emitted' = emitted \o FinalYields
  /\ finished' = TRUE
  /\ UNCHANGED <<sseEvents, cursor, toolCallsBuffer, blockIndexToId,
                 completedToolBlocks, usageRecord, currentFunctionCallId>>

\* a response of at most MaxEvents events, before the first is dispatched
InitDispatch ==
  /\ NoRetry /\ NoGuard /\ NoStream /\ NoRepair /\ NoConfig
  /\ sseEvents \in UNION { [1..n -> StreamEvents] : n \in 0..MaxEvents }
  /\ cursor = 0 /\ finished = FALSE
  /\ toolCallsBuffer = <<>> /\ blockIndexToId = [i \in BlockIndices |-> ""]
  /\ completedToolBlocks = {} /\ usageRecord = NoUsage /\ emitted = <<>>
  /\ currentFunctionCallId = ""

NextDispatch ==
  \/ DispatchEvent /\ UNCHANGED <<retryVars, guardVars, streamVars, repairVars, configVars>>
  \/ StreamEnds /\ UNCHANGED <<retryVars, guardVars, streamVars, repairVars, configVars>>

SpecDispatch == InitDispatch /\ [][NextDispatch]_vars

(***************************************************************************)
(* The body of the loop over the chunks in createStreamingChatCompletion   *)
(* and the code after it.  A chunk is kept in the shape of StreamEvent:    *)
(* kind tells what choices[0] holds ("usage": no choice at all), index,    *)
(* id, name and text are those of delta.tool_calls[0] or the content,      *)
(* and the token counts are those of chunk.usage (-1: no usage).           *)
(***************************************************************************)
\* the chunks a response is made of: the tool call c1 of f opens, its
\* arguments arrive in two fragments, a content delta, the chunk with
\* finish_reason (with and without usage), the chunk that holds only usage
ChatChunks ==
  { StreamEvent("chunk", 0, "tool_calls", "c1", "f", "", -1, -1),
    StreamEvent("chunk", 0, "tool_calls", "", "", "{\"a\":1", -1, -1),
    StreamEvent("chunk", 0, "tool_calls", "", "", "}", -1, -1),
    StreamEvent("chunk", -1, "content", "", "", "hi", -1, -1),
    StreamEvent("chunk", -1, "finish", "", "", "", -1, -1),
    StreamEvent("chunk", -1, "finish", "", "", "", 3, 5),
    StreamEvent("chunk", -1, "usage", "", "", "", 3, 5) }

\* the code after the loop: tool_calls with Object.values(toolCallsBuffer)
\* as it is, usage if usageData is set, done
ChatFinalYields(buffer, usage) ==
  (IF buffer # <<>>
   THEN <<Yielded("tool_calls", "", buffer, NoUsage)>> ELSE <<>>)
  \o (IF usage.set THEN <<Yielded("usage", "", <<>>, usage)>> ELSE <<>>)
  \o <<Yielded("done", "", <<>>, NoUsage)>>

\* parseSSEStream yields the next chunk and the loop body runs on it; on
\* finish_reason it breaks, and the code after the loop runs to the end
ChatChunk ==
  /\ cursor < Len(sseEvents) /\ ~finished
  /\ LET chunk == sseEvents[cursor + 1]
         usage == IF chunk.input_tokens >= 0
                  THEN Usage(chunk.input_tokens, chunk.output_tokens)
                  ELSE usageRecord
         old == IF toolCallsBuffer = <<>>
                THEN [id |-> "", name |-> "", arguments |-> ""]
                ELSE toolCallsBuffer[1]
         call == [id |-> IF chunk.id # "" THEN chunk.id ELSE old.id,
                  name |-> old.name \o chunk.name,
                  arguments |-> old.arguments \o chunk.text]
         buffer == IF chunk.kind = "tool_calls"
                   THEN <<call>> ELSE toolCallsBuffer
         yields == CASE chunk.kind = "content" ->
                          <<Yielded("content", chunk.text, <<>>, NoUsage)>>
                     [] chunk.kind = "tool_calls"
                        /\ chunk.name \o chunk.text # "" ->
                          <<Yielded("tool_call_delta",
                                    chunk.name \o chunk.text, <<>>, NoUsage)>>
                     [] OTHER -> <<>>
     IN  /\ usageRecord' = usage /\ toolCallsBuffer' = buffer
         /\ finished' = (chunk.kind = "finish")
         /\ emitted' = emitted \o yields
                         \o (IF chunk.kind = "finish"
                             THEN ChatFinalYields(buffer, usage) ELSE <<>>)
  /\ cursor' = cursor + 1
  /\ UNCHANGED <<sseEvents, blockIndexToId, completedToolBlocks,
                 currentFunctionCallId>>

\* parseSSEStream ends with no finish_reason seen: the code after the loop
ChatStreamEnds ==
  /\ cursor = Len(sseEvents) /\ ~finished
  /\ emitted' = emitted \o ChatFinalYields(toolCallsBuffer, usageRecord)
  /\ finished' = TRUE
  /\ UNCHANGED <<sseEvents, cursor, toolCallsBuffer, blockIndexToId,
                 completedToolBlocks, usageRecord, currentFunctionCallId>>

\* a response of at most MaxEvents chunks, before the first is read
InitChat ==
  /\ NoRetry /\ NoGuard /\ NoStream /\ NoRepair /\ NoConfig
  /\ sseEvents \in UNION { [1..n -> ChatChunks] : n \in 0..MaxEvents }
  /\ cursor = 0 /\ finished = FALSE
  /\ toolCallsBuffer = <<>> /\ blockIndexToId = [i \in BlockIndices |-> ""]
  /\ completedToolBlocks = {} /\ usageRecord = NoUsage /\ emitted = <<>>
  /\ currentFunctionCallId = ""

NextChat ==
  \/ ChatChunk /\ UNCHANGED <<retryVars, guardVars, streamVars, repairVars, configVars>>
  \/ ChatStreamEnds /\ UNCHANGED <<retryVars, guardVars, streamVars, repairVars, configVars>>

SpecChat == InitChat /\ [][NextChat]_vars

(***************************************************************************)
(* The body of the loop over the events in createStreamingResponse and     *)
(* the code after it.  An event is kept in the shape of StreamEvent: type  *)
(* is the event's type, kind the type of its item, id the item's call_id   *)
(* or the event's item_id, text the delta or the complete arguments, and   *)
(* the token counts are those of response.usage (-1: no usage).            *)
(***************************************************************************)
\* the events a response is made of: the function calls a (of f) and b (of
\* g) are added, a's arguments arrive in two deltas and b's in one, a's
\* arguments are done, and the response is completed with its usage
ResponsesEvents ==
  { StreamEvent("response.output_item.added", -1, "function_call", "a", "f",
                "", -1, -1),
    StreamEvent("response.output_item.added", -1, "function_call", "b", "g",
                "", -1, -1),
    StreamEvent("response.function_call_arguments.delta", -1, "", "a", "",
                "[1", -1, -1),
    StreamEvent("response.function_call_arguments.delta", -1, "", "a", "",
                ",2]", -1, -1),
    StreamEvent("response.function_call_arguments.delta", -1, "", "b", "",
                "{}", -1, -1),
    StreamEvent("response.function_call_arguments.done", -1, "", "a", "",
                "[1,2]", -1, -1),
    StreamEvent("response.completed", -1, "", "", "", "", 3, 5) }

\* parseSSEStream yields the next event and the loop body runs on it; on
\* response.completed it breaks, and the code after the loop runs to the
\* end: with reasoningData unset, as no event of the model sets it, the
\* yields after the loop are those after Chat's loop
ResponsesEvent ==
  /\ cursor < Len(sseEvents) /\ ~finished
  /\ LET chunk == sseEvents[cursor + 1]
         eventType == chunk.type
         Has(id) == \E j \in 1..Len(toolCallsBuffer) : toolCallsBuffer[j].id = id
         Set(id, arguments(_)) ==
           [j \in 1..Len(toolCallsBuffer) |->
              IF toolCallsBuffer[j].id = id
              THEN [toolCallsBuffer[j] EXCEPT !.arguments = arguments(@)]
              ELSE toolCallsBuffer[j]]
         appends == /\ eventType = "response.function_call_arguments.delta"
                    /\ chunk.text # "" /\ currentFunctionCallId # ""
         buffer ==
           CASE eventType = "response.output_item.added" ->
                  SetToolCall(toolCallsBuffer,
                              [id |-> chunk.id, name |-> chunk.name,
                               arguments |-> ""])
             [] appends ->
                  Set(currentFunctionCallId, LAMBDA old : old \o chunk.text)
             [] eventType = "response.function_call_arguments.done"
                /\ Has(chunk.id) ->
                  Set(chunk.id, LAMBDA old : chunk.text)
             [] OTHER -> toolCallsBuffer
         usage == IF eventType = "response.completed"
                     /\ chunk.input_tokens >= 0
                  THEN Usage(chunk.input_tokens, chunk.output_tokens)
                  ELSE usageRecord
     IN  /\ toolCallsBuffer' = buffer /\ usageRecord' = usage
         /\ currentFunctionCallId' =
              CASE eventType = "response.output_item.added" -> chunk.id
                [] eventType = "response.function_call_arguments.done" -> ""
                [] OTHER -> currentFunctionCallId
         /\ finished' = (eventType = "response.completed")
         /\ emitted' =
              emitted
              \o (IF appends
                  THEN <<Yielded("tool_call_delta", chunk.text, <<>>, NoUsage)>>
                  ELSE <<>>)
              \o (IF eventType = "response.completed"
                  THEN ChatFinalYields(buffer, usage) ELSE <<>>)
  /\ cursor' = cursor + 1
  /\ UNCHANGED <<sseEvents, blockIndexToId, completedToolBlocks>>

\* parseSSEStream ends with no response.completed seen: the code after the
\* loop
ResponsesStreamEnds ==
  /\ cursor = Len(sseEvents) /\ ~finished
  /\ emitted' = emitted \o ChatFinalYields(toolCallsBuffer, usageRecord)
  /\ finished' = TRUE
  /\ UNCHANGED <<sseEvents, cursor, toolCallsBuffer, blockIndexToId,
                 completedToolBlocks, usageRecord, currentFunctionCallId>>

\* a response of at most MaxEvents events, before the first is read
InitResponses ==
  /\ NoRetry /\ NoGuard /\ NoStream /\ NoRepair /\ NoConfig
  /\ sseEvents \in UNION { [1..n -> ResponsesEvents] : n \in 0..MaxEvents }
  /\ cursor = 0 /\ finished = FALSE
  /\ toolCallsBuffer = <<>> /\ blockIndexToId = [i \in BlockIndices |-> ""]
  /\ completedToolBlocks = {} /\ usageRecord = NoUsage /\ emitted = <<>>
  /\ currentFunctionCallId = ""

NextResponses ==
  \/ ResponsesEvent /\ UNCHANGED <<retryVars, guardVars, streamVars, repairVars, configVars>>
  \/ ResponsesStreamEnds /\ UNCHANGED <<retryVars, guardVars, streamVars, repairVars, configVars>>

SpecResponses == InitResponses /\ [][NextResponses]_vars

(***************************************************************************)
(* parseJsonWithFix called on a valid JSON text that one synthetic         *)
(* malformation has damaged.                                               *)
(***************************************************************************)
\* the valid texts: objects and arrays of at most two members over a few
\* scalars (strings that hold closers and commas among them), and
\* containers that hold one of those
JsonTexts ==
  LET Containers(values) ==
        {"{}", "[]"}
        \cup { "{\"a\":" \o v \o "}" : v \in values }
        \cup { "[" \o v \o "]" : v \in values }
        \cup { "{\"a\":" \o v \o ",\"b\":" \o w \o "}" : v, w \in values }
        \cup { "[" \o v \o "," \o w \o "]" : v, w \in values }
      Nested(flat) ==
        flat
        \cup { "{\"a\":" \o v \o "}" : v \in flat }
        \cup { "[" \o v \o "]" : v \in flat }
        \cup { "{\"a\":1,\"b\":" \o v \o "}" : v \in flat }
        \cup { "[1," \o v \o "]" : v \in flat }
  IN  Nested(Containers({"1", "true", "\"x\"", "\"}\"", "\"[\"", "\"a,]\""}))

\* most closers one malformation adds at the end
MaxExtra == 2

\* The texts one malformation makes of a valid text, each with the name of
\* the malformation.  A position is structural when it is outside every
\* string of the text (no string of JsonTexts holds a quote).
Malformed(valid) ==
  LET Structural(i) == CountChar(SubSeq(valid, 1, i - 1), "\"") % 2 = 0
      Case(m, t) == [valid |-> valid, malformation |-> m, jsonString |-> t]
      Closers(k) == \A j \in (Len(valid) - k + 1)..Len(valid) :
                       CharAt(valid, j) \in {"}", "]"}
  IN  { Case("trailing comma",
             SubSeq(valid, 1, i - 1) \o "," \o From(valid, i)) :
          i \in { j \in 2..Len(valid) :
                    /\ CharAt(valid, j) \in {"}", "]"} /\ Structural(j)
                    /\ CharAt(valid, j - 1) \notin {"{", "["} } }
      \cup
      { Case("unquoted key",
             SubSeq(valid, 1, i - 1) \o CharAt(valid, i + 1)
               \o From(valid, i + 3)) :
          i \in { j \in 1..Len(valid) :
                    /\ CharAt(valid, j) = "\"" /\ Structural(j)
                    /\ CharAt(valid, j + 2) = "\""
                    /\ CharAt(valid, j + 3) = ":" } }
      \cup
      { Case("missing closers", SubSeq(valid, 1, Len(valid) - k)) :
          k \in { j \in 1..Len(valid) : Closers(j) } }
      \cup
      { Case("extra closers", valid \o Repeat(c, k)) :
          c \in {"}", "]"}, k \in 1..MaxExtra }

\* parseJsonWithFix(jsonString) returns
ParseCall ==
  /\ repairResult.kind = "none"
  /\ repairResult' =
       [kind |-> "returned"] @@ ParseJsonWithFix(repairCase.jsonString, "undefined")
  /\ UNCHANGED repairCase

InitRepair ==
  /\ NoRetry /\ NoGuard /\ NoStream /\ NoDispatch /\ NoConfig
  /\ repairCase \in UNION { Malformed(valid) : valid \in JsonTexts }
  /\ repairResult = NoResult

SpecRepair ==
  InitRepair
  /\ [][ParseCall /\ UNCHANGED <<retryVars, guardVars, streamVars,
                                 dispatchVars, configVars>>]_vars

(***************************************************************************)
(* The configuration of a streaming call.  Chat, Responses and Gemini      *)
(* load it in the body of the exported generator, before withRetry-        *)
(* Generator is entered; Anthropic loads it inside the producer it hands   *)
(* to withRetryGenerator, so on every invocation of the producer.  The     *)
(* store of profiles belongs to the user, who may edit, add or delete the  *)
(* named profile while a call waits between two attempts.                  *)
(***************************************************************************)
\* if (options.configProfile) { loadProfile(...)?.snowcfg, else the main
\* configuration } else the main configuration
LoadConfig ==
  IF streamingCall.configProfile /\ storedProfile # "missing"
  THEN storedProfile
  ELSE "main"

\* the exported generator runs up to yield* withRetryGenerator(...)
CallStarts ==
  /\ callPc = "call" /\ callPc' = "invoke"
  /\ config' = IF streamingCall.adapter = "anthropic" THEN config ELSE LoadConfig
  /\ UNCHANGED <<streamingCall, storedProfile, requests>>

\* withRetryGenerator invokes the producer, which builds its request (url,
\* key, headers, model) from config and fetches
ProducerInvoked ==
  /\ callPc = "invoke" /\ callPc' = "attempt"
  /\ config' = IF streamingCall.adapter = "anthropic" THEN LoadConfig ELSE config
  /\ requests' = Append(requests, config')
  /\ UNCHANGED <<streamingCall, storedProfile>>

\* the attempt ends: with a retriable failure before any output and with
\* retries left the producer is invoked again after the backoff wait,
\* otherwise the call is over
AttemptEnds ==
  /\ callPc = "attempt"
  /\ \E retry \in BOOLEAN :
       callPc' = IF retry /\ Len(requests) <= streamingCall.maxRetries
                 THEN "invoke" ELSE "done"
  /\ UNCHANGED <<streamingCall, storedProfile, config, requests>>

\* the user saves, creates or deletes the named profile
ProfileChanges ==
  /\ callPc \in {"call", "invoke", "attempt"}
  /\ storedProfile' \in {"missing", "p1", "p2"} \ {storedProfile}
  /\ UNCHANGED <<streamingCall, config, requests, callPc>>

InitConfig ==
  /\ NoRetry /\ NoGuard /\ NoStream /\ NoDispatch /\ NoRepair
  /\ streamingCall \in [adapter : Adapters, configProfile : BOOLEAN,
                         maxRetries : 0..MaxRetriesBound]
  /\ storedProfile \in {"missing", "p1", "p2"}
  /\ config = "unset" /\ requests = <<>> /\ callPc = "call"

NextConfig ==
  \/ CallStarts /\ UNCHANGED <<retryVars, guardVars, streamVars, dispatchVars, repairVars>>
  \/ ProducerInvoked /\ UNCHANGED <<retryVars, guardVars, streamVars, dispatchVars, repairVars>>
  \/ AttemptEnds /\ UNCHANGED <<retryVars, guardVars, streamVars, dispatchVars, repairVars>>
  \/ ProfileChanges /\ UNCHANGED <<retryVars, guardVars, streamVars, dispatchVars, repairVars>>

SpecConfig == InitConfig /\ [][NextConfig]_vars

(***************************************************************************)
(* The scheduling the liveness claims rest on: the event loop runs a due   *)
(* timer and a resumed wrapper, and a producer that was invoked settles.   *)
(***************************************************************************)
InitRetryFair ==
  /\ NoGuard /\ NoStream /\ NoDispatch /\ NoRepair /\ NoConfig
  /\ mode = "gen"
  /\ maxRetries \in 0..MaxRetriesBound
  /\ baseDelay = DefaultBaseDelay
  /\ onRetry = TRUE
  /\ aborted = FALSE
  /\ pc = "loop" /\ attempt = 0 /\ lastError = NoError
  /\ hasYielded = FALSE /\ yielded = 0 /\ calls = 0
  /\ obs = <<>> /\ out = <<>> /\ result = Pending /\ ev = "Init"

NextRetryFair ==
  \/ Invoke /\ UNCHANGED <<guardVars, streamVars, dispatchVars, repairVars, configVars>>
  \/ ProducerYields /\ UNCHANGED <<guardVars, streamVars, dispatchVars, repairVars, configVars>>
  \/ ProducerReturns /\ UNCHANGED <<guardVars, streamVars, dispatchVars, repairVars, configVars>>
  \/ ProducerThrows /\ UNCHANGED <<guardVars, streamVars, dispatchVars, repairVars, configVars>>
  \/ DelayTimer /\ UNCHANGED <<guardVars, streamVars, dispatchVars, repairVars, configVars>>
  \/ AbortSignal /\ UNCHANGED <<guardVars, streamVars, dispatchVars, repairVars, configVars>>

SpecRetryFair ==
  /\ InitRetryFair /\ [][NextRetryFair]_vars
  /\ WF_vars(Invoke /\ UNCHANGED <<guardVars, streamVars, dispatchVars, repairVars, configVars>>)
  /\ WF_vars(DelayTimer /\ UNCHANGED <<guardVars, streamVars, dispatchVars, repairVars, configVars>>)
  /\ WF_vars((ProducerYields \/ ProducerReturns \/ ProducerThrows)
             /\ UNCHANGED <<guardVars, streamVars, dispatchVars, repairVars, configVars>>)

(***************************************************************************)
(* Claims about the retry orchestrator.                                    *)
(***************************************************************************)
IdleTimeoutFailure == StreamIdleTimeoutError("No data received for 180000ms")

\* C1: in withRetryGenerator, when the producer fails after at least one
\* element reached the caller and the error does not match the
\* stream-interruption signature, the wrapper throws that very error in the
\* same step: the observer is not called, no delay is started and the
\* producer is not invoked again (a finished wrapper never invokes it).
C1_PartialOutputFatal ==
  [][ /\ ( mode = "gen" /\ ev' = "Fail" /\ hasYielded
           /\ ~StreamInterruption[lastError'] )
         => ( pc' = "done" /\ result' = Thrown(lastError')
              /\ obs' = obs /\ calls' = calls )
      /\ pc = "done" => calls' = calls ]_vars

\* C1 witness: a retriable, non-cancellation, non-interruption failure after
\* partial output, with attempts remaining, was thrown.
C1_Witness ==
  /\ mode = "gen" /\ ev = "Fail" /\ hasYielded /\ yielded >= 1
  /\ ~StreamInterruption[lastError] /\ Retriable[lastError]
  /\ ~IsAbortError(lastError) /\ attempt < maxRetries /\ ~aborted
  /\ result = Thrown(lastError)

\* the premise, the conclusion and the escape of C2
C2_FirstFailedIdle ==
  /\ mode = "gen" /\ calls = 1 /\ ev = "Fail" /\ yielded = 1
  /\ lastError = IdleTimeoutFailure /\ maxRetries >= 1 /\ ~aborted

C2_Delivered ==
  /\ result = Returned("") /\ calls = 2
  /\ out = <<<<1, 1>>>> \o [i \in 1..yielded |-> <<2, i>>]

C2_SecondFailedOrCancelled ==
  \/ aborted
  \/ calls = 2 /\ pc # "running" /\ result.kind # "returned"

C3_RetryThenSuccess ==
  /\ ( mode = "one" /\ onRetry /\ result.kind = "returned" )
       => /\ result.value \in Values
          /\ calls = Len(obs) + 1
          /\ calls <= maxRetries + 1
          /\ \A k \in 1..Len(obs) :
               /\ obs[k].attempt = k
               /\ obs[k].nextDelay = baseDelay * Pow2(k - 1)
               /\ Retriable[obs[k].error] /\ ~IsAbortError(obs[k].error)
               /\ k > 1 => obs[k].nextDelay > obs[k - 1].nextDelay
  /\ ( mode = "one" /\ result.kind = "thrown" /\ ~aborted )
       => /\ result.error = lastError
          /\ \/ IsAbortError(lastError)
             \/ ~Retriable[lastError]
             \/ calls = maxRetries + 1

\* C3 witness: three retriable failures, then success.
C3_Witness ==
  /\ mode = "one" /\ onRetry /\ result.kind = "returned"
  /\ calls = 4 /\ Len(obs) = 3 /\ baseDelay = DefaultBaseDelay
  /\ obs[3].nextDelay = 4000

\* C4: in withRetry, a first invocation that fails with an error that is not
\* classified retriable makes the wrapper throw that error at once: one
\* invocation, no observer call, no delay.
C4_NonRetriableFirst ==
  ( mode = "one" /\ ev = "Fail" /\ calls = 1 /\ ~Retriable[lastError] )
    => ( pc = "done" /\ result = Thrown(lastError) /\ obs = <<>> )

\* C4 witness: a non-retriable, non-cancellation first failure with attempts
\* remaining.
C4_Witness ==
  /\ mode = "one" /\ ev = "Fail" /\ calls = 1 /\ ~Retriable[lastError]
  /\ ~IsAbortError(lastError) /\ maxRetries >= 1 /\ ~aborted /\ onRetry
  /\ result = Thrown(lastError)

\* C5: in both wrappers, a cancellation that arrives during the backoff wait
\* ends the wait in the same step with the dedicated 'Request aborted' error,
\* which is not the operation's last error; and whether the cancellation
\* comes before or after the wait's timer, the operation is not invoked
\* again once the token is cancelled at the wait or at the loop head.
C5_CancelDuringBackoff ==
  [][ /\ ( pc = "delay" /\ ~aborted /\ aborted' )
         => ( pc' = "done" /\ result' = Thrown(RequestAborted)
              /\ result'.error # lastError /\ calls' = calls )
      /\ ( aborted' /\ pc \in {"delay", "loop", "done"} ) => calls' = calls
    ]_vars

\* C5 witness: the wait was cancelled and the wrapper has thrown.
C5_Witness ==
  /\ ev = "AbortInDelay" /\ aborted /\ pc = "done"
  /\ result = Thrown(RequestAborted) /\ lastError # NoError

\* C6 (as claimed): the operation/producer is invoked at most maxRetries
\* times in one call.
C6_Original == calls <= maxRetries

\* C6 (amended): the operation/producer is invoked at most maxRetries + 1
\* times in one call: the first attempt and at most maxRetries retries.
C6_AtMostRetriesPlusOne == calls <= maxRetries + 1

\* C6 witness: six invocations under the default maxRetries of 5.
C6_Witness == maxRetries = DefaultMaxRetries /\ calls = DefaultMaxRetries + 1

\* what the claims call an explicit cancellation error
C7_ExplicitCancellation(e) == e.name = "AbortError" \/ e.message = "Aborted"

\* C7: in both wrappers, a failure that is an explicit cancellation error
\* (name AbortError or message 'Aborted') is thrown unchanged in the same
\* step, without observer call, delay or further invocation, whatever else
\* its message contains and whether or not output was delivered.
C7_CancellationNeverRetried ==
  [][ ( ev' = "Fail" /\ C7_ExplicitCancellation(lastError') )
        => ( pc' = "done" /\ result' = Thrown(lastError')
             /\ obs' = obs /\ calls' = calls ) ]_vars

\* C7 witness: an AbortError whose message holds 'timeout', after partial
\* output and with attempts remaining, was thrown.
C7_Witness ==
  /\ mode = "gen" /\ ev = "Fail" /\ hasYielded /\ attempt < maxRetries
  /\ lastError.name = "AbortError" /\ Retriable[lastError]
  /\ result = Thrown(lastError) /\ ~aborted

\* how many events of a kind the caller has received
C8_Count(kind) == Cardinality({ i \in 1..Len(out) : out[i] = kind })

\* C8: when a streaming call of any adapter has ended without raising, the
\* events the caller received hold at most one tool_calls and at most one
\* usage, tool_calls comes before usage, both come before done, and done
\* occurs exactly once and is the last event.
C8_FinalEventOrder ==
  (adapter \in Adapters /\ result.kind = "returned")
  => /\ C8_Count("tool_calls") <= 1
     /\ C8_Count("usage") <= 1
     /\ \A i, j \in 1..Len(out) :
          /\ (out[i] = "tool_calls" /\ out[j] = "usage") => i < j
          /\ (out[i] \in {"tool_calls", "usage"} /\ out[j] = "done") => i < j
     /\ C8_Count("done") = 1
     /\ Len(out) > 0 /\ out[Len(out)] = "done"

\* a step of the guard's periodic check
C9_CheckStep == nextCheck' # nextCheck

\* C9: while the guard is not disposed, every periodic check that runs
\* later than lastChunkTime + idleTimeoutMs (the last activity plus the
\* threshold) leaves isAbandoned() true and getTimeoutError() a non-null
\* retriable StreamIdleTimeoutError; the flag and the error are set by one
\* and the same check; and a live guard is never left unflagged longer than
\* the threshold plus one check interval (plus the lag of the timer).
C9_IdleBreachFlagged ==
  /\ [][ /\ (C9_CheckStep /\ now > lastChunkTime + idleTimeoutMs)
            => /\ isAbandoned'
               /\ timeoutError' # NoError
               /\ timeoutError'.name = "StreamIdleTimeoutError"
               /\ IsRetriableError(timeoutError')
         /\ (C9_CheckStep /\ (isAbandoned' # isAbandoned
                              \/ timeoutError' # timeoutError))
            => /\ ~isAbandoned /\ isAbandoned'
               /\ timeoutError = NoError /\ timeoutError' # NoError ]_vars
  /\ [](idleTimer = "active" /\ ~isAbandoned
        => now - lastChunkTime <= idleTimeoutMs + CheckIntervalMs + MaxTimerLag)

C9_Witness ==
  /\ idleTimer = "active" /\ onTimeout = "none"
  /\ lastTouchAt > 0 /\ lastChunkTime = lastTouchAt
  /\ idleTimeoutMs > 0
  /\ nextCheck = now + CheckIntervalMs
  /\ now > lastChunkTime + idleTimeoutMs
  /\ now <= lastChunkTime + idleTimeoutMs + CheckIntervalMs
  /\ isAbandoned /\ timeoutErrorBy = "default"
  /\ timeoutError = NoDataReceived(idleTimeoutMs)

\* C10: after touch() at time lastTouchAt on a guard that is not abandoned,
\* a periodic check that runs no later than lastTouchAt + idleTimeoutMs
\* neither marks the guard abandoned nor stores a timeout error.
C10_TouchResetsClock ==
  [][ (/\ nextCheck' # nextCheck
       /\ ~isAbandoned
       /\ lastTouchAt >= 0
       /\ now <= lastTouchAt + idleTimeoutMs)
      => (~isAbandoned' /\ timeoutError' = NoError) ]_vars

C10_Witness ==
  /\ idleTimer = "active" /\ ~isAbandoned /\ timeoutError = NoError
  /\ lastTouchAt > 0
  /\ nextCheck = now + CheckIntervalMs
  /\ now = lastTouchAt + idleTimeoutMs
  /\ now > idleTimeoutMs + CheckIntervalMs


\* the events an adapter decodes from the frames of the response body
DecodedEvents == {"content", "reasoning_delta", "tool_call_delta"}

\* the guard was abandoned because its timer fired
AbandonedByTimer == isAbandoned /\ timeoutError # NoError

\* C11: in every adapter, once the guard is abandoned because the timer
\* fired, no content, reasoning_delta or tool_call_delta event decoded from
\* the attempt's stream is delivered to the caller any more.
C11_NothingDeliveredAfterTimeout ==
  [][AbandonedByTimer
     => \/ out' = out
        \/ out'[Len(out')] \notin DecodedEvents]_vars

\* the frames that carry business content: text, reasoning text, tool-call
\* content
BusinessFrames == {"text", "thinking", "tool", "textTool"}

\* C12: guard.touch() is called only for frames that carry business
\* content; structural frames (block-start markers, message_start,
\* message_delta, heartbeats, empty deltas) leave the last-activity time
\* as it is.
C12_TouchOnlyOnBusinessContent ==
  \A i \in 1..Len(touched) : touched[i] \in BusinessFrames

\* C13: in all four adapters the sentinel line ends the decode loop
\* successfully at once: no later line is processed and no later chunk is
\* read, no error is raised whatever the line buffer holds, and the adapter
\* goes on to its final events, the last of which is done.
C13_SentinelEndsDecoding ==
  sawDone
    => /\ apc # "read" /\ lines = <<>>
       /\ \A i \in 1..Len(pending) : pending[i] \notin DecodedEvents
       /\ ev # "Fail"
       /\ (pc = "done" /\ ev # "Close")
            => /\ result = Returned("")
               /\ out # <<>> /\ out[Len(out)] = "done"

\* the reader reports the end of the body while the line buffer holds
\* non-blank text and no sentinel line was seen in the attempt
C14_DirtyEnd == input'.done /\ input'.dirty /\ ~sawDone

\* the attempt raises the terminated-unexpectedly error, which is retriable
\* and an interruption of the stream; no event is emitted; the failure is
\* retried (observer, backoff) while attempts remain, whether or not events
\* were delivered, and raised otherwise
C14_RaisedAndRetried ==
  LET error == TerminatedUnexpectedly(adapter)
  IN  /\ lastError' = error /\ ev' = "Fail" /\ apc' = "none"
      /\ Includes(ToLowerCase(error.message), "terminated unexpectedly")
      /\ Retriable[error] /\ StreamInterruption[error]
      /\ out' = out
      /\ IF attempt < maxRetries
         THEN /\ pc' = "delay"
              /\ obs' = Append(obs, [error |-> error, attempt |-> attempt + 1,
                                     nextDelay |-> NextDelay])
         ELSE pc' = "done" /\ result' = Thrown(error)

C15_Stream ==
  <<ToolUseStart(0, "t1", "f"),
    InputJsonDelta(0, "{\"a\":1"),
    InputJsonDelta(0, "}"),
    BlockStop(0),
    MessageDelta(5)>>

\* the one tool call of the stream, finalized
C15_ToolCalls == <<[id |-> "t1", name |-> "f", arguments |-> "{\"a\":1}"]>>

\* the types of the events emitted
C15_Types == [i \in 1..Len(emitted) |-> emitted[i].type]

C16_CancelledBeforeRead ==
  aborted /\ ~isAbandoned /\ isAbandoned' /\ timeoutError' = NoError

\* C16: when the decode loop finds the cancellation token cancelled before
\* a read, the guard is marked abandoned, the reader's cancel is attempted,
\* and the attempt ends by raising an aborted error that is not retried;
\* the attempt does not end normally and emits no tool_calls, usage or done
\* event.
C16_CancellationRaisesAborted ==
  [][C16_CancelledBeforeRead
     => /\ readerCancels'
        /\ pc' = "done" /\ result'.kind = "thrown"
        /\ IsAbortError(result'.error)
        /\ out' = out]_vars

\* the request was in flight when the token was cancelled, and fetch()
\* rejects with the transport's abort error
C17_FetchAborted == apc = "fetch" /\ aborted /\ apc' # "fetch"

\* C17: when the token is cancelled while an adapter's HTTP request is in
\* flight, the streaming call raises the transport's cancellation error
\* verbatim, the retry observer is not invoked, and there is no backoff wait
\* and no further attempt.
C17_CancelledFetchVerbatim ==
  [][C17_FetchAborted
     => /\ pc' = "done" /\ result' = Thrown(TransportAbort)
        /\ obs' = obs]_vars

\* fetch() resolves with the response r, which is not ok
AnsweredNotOk(r) ==
  apc = "fetch" /\ ~aborted /\ ev' = "Fail" /\ lastError' = ApiError(adapter, r)

\* C18: in every adapter a response with a 4xx status other than 429 makes
\* the streaming call raise at once, with no observer invocation and no
\* further attempt, whatever its status text and body contain.
C18_ClientErrorFatal ==
  [][\A r \in HttpResponses :
       (AnsweredNotOk(r) /\ r.status \in 400..499 /\ r.status # 429)
         => /\ pc' = "done" /\ result' = Thrown(ApiError(adapter, r))
            /\ obs' = obs /\ calls' = calls]_vars

\* C19: in every adapter a response with status 429 or a 5xx status,
\* received before any output, is classified retriable and is retried
\* (observer notified, backoff wait, new attempt) as long as attempts remain
\* and the token is not cancelled, whatever the body contains.
C19_ServerErrorRetried ==
  [][\A r \in HttpResponses :
       (/\ AnsweredNotOk(r) /\ (r.status = 429 \/ r.status \in 500..599)
        /\ ~hasYielded /\ attempt < maxRetries)
         => /\ Retriable[ApiError(adapter, r)]
            /\ pc' = "delay"
            /\ obs' = Append(obs, [error |-> ApiError(adapter, r),
                                   attempt |-> attempt + 1,
                                   nextDelay |-> NextDelay])]_vars

\* the lines the decode loop runs in this step: the chunk a read resolves
\* with, or the rest of a chunk when the producer goes on from a yield
C20_Decoded ==
  IF apc = "read" /\ timeoutError = NoError /\ ~isAbandoned
  THEN input'.lines
  ELSE IF /\ pc = "running" /\ apc = "yield" /\ after = "loop"
          /\ Unguarded(pending) = <<>> /\ ev' # "Close"
          /\ aborted' = aborted /\ timeoutError' = timeoutError
  THEN lines
  ELSE <<>>

\* the lines ls without those whose payload cannot be parsed
C20_WellFormed(ls) == SelectSeq(ls, LAMBDA frame : frame # "garbled")

\* C20: in every adapter's decode loop a data frame whose payload cannot be
\* parsed even after the repair produces no event and no error: the step
\* that runs lines with such frames among them does exactly what it would
\* do on the same lines without them, and the lines still to run are the
\* same well-formed ones, so that every later well-formed frame is decoded
\* and delivered in wire order.
C20_UnparsedFrameSkipped ==
  [][(\E i \in 1..Len(C20_Decoded) : C20_Decoded[i] = "garbled")
     => LET r == DecodeLines(C20_WellFormed(C20_Decoded), Locals)
            final == FinalEvents(r.l.htc, r.l.rd, r.l.us)
        IN  /\ ev' # "Fail" /\ result'.kind # "thrown"
            /\ hasToolCalls' = r.l.htc /\ usageData' = r.l.us
            /\ reasoningData' = r.l.rd /\ reasoningStarted' = r.l.rs
            /\ sawDone' = r.l.done /\ touched' = r.l.touched
            /\ C20_WellFormed(lines') = r.lines
            /\ IF r.events # <<>>
               THEN /\ out' = Append(out, Head(r.events))
                    /\ pending' = Tail(r.events) /\ after' = r.then
               ELSE IF r.then = "final" \/ (aborted /\ adapter # "gemini")
               THEN out' = Append(out, Head(final)) /\ pending' = Tail(final)
               ELSE IF aborted THEN out' = out /\ pc' = "done"
               ELSE out' = out /\ apc' = "read"]_vars

\* a chunk whose first line cannot be parsed and whose second is a text
\* frame was read, and the text was delivered
C20_Witness ==
  /\ input = Chunk(<<"garbled", "text">>)
  /\ apc = "yield" /\ out # <<>> /\ out[Len(out)] = "content"

\* the attempt that fails in this step is the last one the wrapper makes,
\* and its error is classified retriable: every earlier attempt failed with
\* a retriable error too, since only such a failure leads to another attempt
C21_LastAttemptFails ==
  /\ pc = "running" /\ ev' = "Fail" /\ attempt = maxRetries
  /\ Retriable[lastError']

\* C21: when withRetry or withRetryGenerator gives up because every attempt
\* failed with a retriable error, the wrapper, which had raised nothing so
\* far, throws in that step the error of the last attempt itself, not a new
\* error; the failures of the earlier attempts went to the observer only,
\* one call for each, and this last one does not.
C21_ExhaustionRaisesLastError ==
  [][ C21_LastAttemptFails
        => /\ result = Pending
           /\ pc' = "done" /\ result' = Thrown(lastError')
           /\ obs' = obs
           /\ onRetry => /\ Len(obs) = maxRetries
                         /\ \A k \in 1..Len(obs) :
                              obs[k].attempt = k /\ Retriable[obs[k].error]
    ]_vars

\* C21 witness: two attempts failed with retriable errors that differ, the
\* observer heard of the first and the wrapper has thrown the second.
C21_Witness ==
  /\ ev = "Fail" /\ pc = "done" /\ maxRetries = 1 /\ attempt = 1 /\ calls = 2
  /\ onRetry /\ Len(obs) = 1 /\ obs[1].error # lastError
  /\ Retriable[lastError] /\ ~IsAbortError(lastError) /\ ~aborted
  /\ result = Thrown(lastError)

\* the producer fails with an error that carries the idle-timeout name
\* while attempts remain
C22_IdleTimeoutNamed ==
  /\ mode = "gen" /\ pc = "running" /\ ev' = "Fail"
  /\ lastError'.name = "StreamIdleTimeoutError" /\ attempt < maxRetries

C23_SingleMalformationRepaired ==
  repairResult.kind = "returned"
    => /\ repairResult.success /\ repairResult.wasFixed
       /\ repairResult.data = JsonParse(repairCase.valid).text

(***************************************************************************)
(* Further claims about the guard.                                         *)
(***************************************************************************)
\* the guard itself acts on the attempt: it marks it abandoned, cancels the
\* reader or stores a timeout error, while the decode loop has not left
C24_GuardFires ==
  /\ idleTimer' = "active"
  /\ \/ isAbandoned' # isAbandoned \/ readerCancels' # readerCancels
     \/ timeoutError' # timeoutError

\* C24: there is no cap on the total duration.  The guard acts on the
\* attempt only in a step in which more than the threshold has passed since
\* the last fragment was decoded (since guard creation, when none was): a
\* stream whose every fragment is decoded within the threshold of the one
\* before is never flagged, whatever the time since the guard was created
\* and however many fragments came.
C24_NoDurationCap ==
  [][ C24_GuardFires
        => /\ lastChunkTime = (IF lastTouchAt >= 0 THEN lastTouchAt ELSE 0)
           /\ now - lastChunkTime > idleTimeoutMs ]_vars

\* C24 witness: the guard is alive and unflagged at more than three times
\* the threshold and three check intervals after its creation, the last
\* fragment having come within the threshold.
C24_Witness ==
  /\ idleTimer = "active" /\ ~isAbandoned /\ timeoutError = NoError
  /\ ~readerCancels
  /\ idleTimeoutMs > 0 /\ now > 3 * idleTimeoutMs
  /\ nextCheck > 3 * CheckIntervalMs
  /\ lastTouchAt > idleTimeoutMs /\ now - lastTouchAt <= idleTimeoutMs

(***************************************************************************)
(* Further claims about the adapters.                                      *)
(***************************************************************************)
\* C25: across the attempts of one streaming call every attempt creates a
\* guard of its own, in its initial state, and the guard of an attempt is
\* disposed on every way out of its decode loop (end of the body, [DONE],
\* a raised error, cancellation, the caller stopping early) before the next
\* attempt starts: a guard timer is alive only while the producer that
\* created it is suspended at a read or a yield of its decode loop, so no
\* timer is alive when an attempt starts, at most one is alive at any time,
\* and the timer that cancels a reader or flags an attempt is the one that
\* attempt created.
C25_OneGuardPerAttempt ==
  /\ [](idleTimer = "active"
          => pc = "running" /\ apc \in {"read", "yield"}
             /\ (apc = "yield" => after = "loop"))
  /\ [][ /\ calls' # calls => idleTimer = "null" /\ idleTimer' = "null"
         /\ (apc = "fetch" /\ apc' = "read")
              => /\ idleTimer = "null" /\ idleTimer' = "active"
                 /\ ~isAbandoned' /\ ~readerCancels'
                 /\ timeoutError' = NoError /\ lastChunkTime' = now'
         /\ (isAbandoned' /\ ~isAbandoned)
              => pc = "running" /\ apc \in {"read", "yield"} ]_vars

\* C25 witness: the first attempt's guard fired and the attempt failed, and
\* the second attempt is in its decode loop under a guard that is alive and
\* not flagged.
C25_Witness ==
  /\ calls = 2 /\ pc = "running" /\ apc = "read"
  /\ lastError.name = "StreamIdleTimeoutError"
  /\ idleTimer = "active" /\ ~isAbandoned /\ ~readerCancels
  /\ timeoutError = NoError

\* C26: in each of the four adapters the configuration of a streaming call
\* (the profile override and what is derived from it) is resolved exactly
\* once, before the first attempt, and every attempt builds its request
\* from that one configuration even if the stored profile changes between
\* the attempts.
C26_ConfigResolvedOnce ==
  /\ [][requests # <<>> => config' = config]_vars
  /\ [](\A i \in 1..Len(requests) : requests[i] = requests[1])

\* C26 for the adapters that load the configuration outside the producer
C26_ResolvedOutsideProducer ==
  streamingCall.adapter \in {"chat", "responses", "gemini"}
    => /\ \A i \in 1..Len(requests) : requests[i] = requests[1]
       /\ callPc \in {"invoke", "attempt", "done"}
            => config = IF requests = <<>> THEN config ELSE requests[1]

\* the tool calls of the tool_calls events emitted so far
C27_FinalToolCalls ==
  UNION { { emitted[i].tool_calls[j] : j \in 1..Len(emitted[i].tool_calls) } :
          i \in { k \in 1..Len(emitted) : emitted[k].type = "tool_calls" } }

\* C27: every tool call of the final tool_calls event carries an arguments
\* string that is valid JSON, whatever fragments it was assembled from:
\* malformed or truncated fragments give repaired JSON or {} and never the
\* raw text.  Stated for the Chat adapter.
C27_FinalArgumentsValidJson ==
  \A call \in C27_FinalToolCalls : JsonParse(call.arguments).ok

\* C30: in the Chat adapter, when the provider sends the usage in a chunk
\* after the chunk that carries finish_reason, the adapter emits exactly
\* one usage event, with those token counts, right before done.
C30_UsageAfterFinish ==
  (/\ finished
   /\ \E i \in 1..(Len(sseEvents) - 1) :
        /\ sseEvents[i].kind = "finish" /\ sseEvents[i + 1].kind = "usage"
        /\ \A j \in 1..i : sseEvents[j].input_tokens < 0
        /\ \A j \in 1..(i - 1) : sseEvents[j].kind # "finish")
    => /\ Cardinality({ k \in 1..Len(emitted) : emitted[k].type = "usage" }) = 1
       /\ Len(emitted) >= 2
       /\ emitted[Len(emitted) - 1] = Yielded("usage", "", <<>>, Usage(3, 5))
       /\ emitted[Len(emitted)].type = "done"

\* C29: withRetry and withRetryGenerator look at the cancellation token
\* before every attempt, the first one and each one after a completed
\* backoff wait: with the token cancelled at the loop head the aborted
\* error is raised, and no step taken with the token cancelled invokes the
\* operation or the producer (a token cancelled before the call gives zero
\* invocations).
C29_TokenCheckedBeforeAttempt ==
  [][/\ aborted => calls' = calls
     /\ (pc = "loop" /\ aborted /\ attempt <= maxRetries)
          => /\ pc' = "done" /\ result' = Thrown(RequestAborted)
             /\ obs' = obs /\ out' = out]_vars

\* C29 witness: the token was cancelled after the first backoff wait had
\* completed, and the second attempt was not made
C29_Witness ==
  /\ ev = "AbortedAtLoop" /\ attempt = 1 /\ calls = 1
  /\ pc = "done" /\ result = Thrown(RequestAborted)

\* the first breach: the periodic check that flags the guard
C28_FirstBreach == C9_CheckStep /\ ~isAbandoned /\ isAbandoned'

\* C28: when the caller's timeout callback raises during the first breach,
\* the periodic check still ends normally (the interval stays armed and the
\* check is scheduled again), the guard is abandoned, the reader's cancel
\* has been attempted, and getTimeoutError() returns the error the callback
\* raised, which replaces the default timeout error.
C28_CallbackErrorKept ==
  [][(C28_FirstBreach /\ onTimeout # "none")
       => /\ idleTimer' = "active" /\ nextCheck' = now + CheckIntervalMs
          /\ readerCancels'
          /\ timeoutErrorBy' = "onTimeout"
          /\ timeoutError' = IF onTimeout = "fails"
                             THEN Err("Error", "onTimeout failed")
                             ELSE NoDataReceived(idleTimeoutMs)]_vars

\* C28 witness: the guard of a caller whose callback throws its own error
\* has been flagged by a check
C28_Witness ==
  /\ onTimeout = "fails" /\ isAbandoned /\ readerCancels
  /\ idleTimer = "active" /\ timeoutErrorBy = "onTimeout"
  /\ timeoutError = Err("Error", "onTimeout failed")

(***************************************************************************)
(* Claims about the Responses adapter.                                     *)
(***************************************************************************)
RECURSIVE C31_Fragments(_, _)
\* the argument deltas of call id among the first n events, joined in order
C31_Fragments(id, n) ==
  IF n = 0 THEN ""
  ELSE C31_Fragments(id, n - 1)
       \o (IF /\ sseEvents[n].type = "response.function_call_arguments.delta"
              /\ sseEvents[n].id = id
           THEN sseEvents[n].text ELSE "")

\* each call is added once, before its deltas, and no arguments are done
\* among the events read so far
C31_WellFormed ==
  /\ \A n \in 1..cursor :
       /\ sseEvents[n].type # "response.function_call_arguments.done"
       /\ sseEvents[n].type = "response.function_call_arguments.delta"
            => \E m \in 1..(n - 1) :
                 /\ sseEvents[m].type = "response.output_item.added"
                 /\ sseEvents[m].id = sseEvents[n].id
  /\ \A m, n \in 1..cursor :
       (/\ sseEvents[m].type = "response.output_item.added"
        /\ sseEvents[n].type = "response.output_item.added"
        /\ sseEvents[m].id = sseEvents[n].id) => m = n

\* C31: in the Responses adapter every argument delta is appended to the
\* accumulator of the call the event itself names, so that for any
\* interleaving of the deltas of two parallel calls each call's accumulated
\* arguments are exactly its own fragments in order.
C31_DeltasByOwnCall ==
  C31_WellFormed
    => \A j \in 1..Len(toolCallsBuffer) :
         toolCallsBuffer[j].arguments
           = C31_Fragments(toolCallsBuffer[j].id, cursor)

\* C31 for streams in which the deltas of a call all arrive before the next
\* call is added
C31_DeltasOfLatestCall ==
  (/\ C31_WellFormed
   /\ \A m, n \in 1..cursor :
        (/\ m < n /\ sseEvents[m].type = "response.output_item.added"
         /\ sseEvents[n].type = "response.function_call_arguments.delta")
          => \/ sseEvents[n].id = sseEvents[m].id
             \/ \E k \in (m + 1)..(n - 1) :
                  /\ sseEvents[k].type = "response.output_item.added"
                  /\ sseEvents[k].id = sseEvents[n].id)
    => \A j \in 1..Len(toolCallsBuffer) :
         toolCallsBuffer[j].arguments
           = C31_Fragments(toolCallsBuffer[j].id, cursor)

(***************************************************************************)
(* Claims about the guard in the hands of any caller.                      *)
(***************************************************************************)
\* C32: after dispose() has returned the periodic check never runs again,
\* so the timer changes neither the abandoned flag nor the captured error
\* afterwards, even when the threshold elapses; a second dispose() changes
\* nothing (the timer stays cleared).
C32_DisposeStopsTimer ==
  [][idleTimer = "null"
       => /\ idleTimer' = "null" /\ nextCheck' = nextCheck
          /\ timeoutError' = timeoutError /\ timeoutErrorBy' = timeoutErrorBy
          /\ (isAbandoned' # isAbandoned => timeoutError' = timeoutError
                                            /\ readerCancels')]_vars

\* C32 witness: a disposed guard that was never flagged, with the stream
\* silent for longer than the threshold plus a check interval and the lag
C32_Witness ==
  /\ idleTimer = "null" /\ ~isAbandoned /\ timeoutError = NoError
  /\ now > lastChunkTime + idleTimeoutMs + CheckIntervalMs + MaxTimerLag
  /\ now > nextCheck + MaxTimerLag

\* C39: for every guard, in every reachable state and under every
\* interleaving of timer checks with touch(), abandon() and dispose():
\* getTimeoutError() non-null implies isAbandoned(); isAbandoned() never
\* returns to false (touch() does not revive an abandoned guard); a captured
\* error is never cleared; and the timeout branch of the check (reader
\* cancel plus callback) runs at most once: a check changes the guard only
\* when it finds it unflagged with no error captured, and leaves it flagged
\* with an error captured.
C39_GuardFlagsMonotonic ==
  /\ [](timeoutError # NoError => isAbandoned)
  /\ [][/\ isAbandoned => isAbandoned'
        /\ timeoutError # NoError => timeoutError' # NoError
        /\ (C9_CheckStep /\ (isAbandoned' # isAbandoned
                             \/ readerCancels' # readerCancels
                             \/ timeoutError' # timeoutError
                             \/ timeoutErrorBy' # timeoutErrorBy))
             => /\ ~isAbandoned /\ timeoutError = NoError
                /\ isAbandoned' /\ timeoutError' # NoError]_vars

\* C39 witness: a guard flagged by the timer was touched afterwards, a
\* check has run since within the threshold of the touch, and the guard is
\* still flagged with its error
C39_Witness ==
  /\ idleTimer = "active" /\ isAbandoned /\ timeoutError # NoError
  /\ lastChunkTime = lastTouchAt /\ now - lastChunkTime <= idleTimeoutMs
  /\ nextCheck - CheckIntervalMs > lastTouchAt

\* C40: after abandon() has been called on a guard with no timeout
\* captured, no later periodic check captures a timeout error or runs the
\* timeout callback, however long the stream stays idle: a check that finds
\* the guard abandoned changes nothing.
C40_NoTimeoutAfterAbandon ==
  [][/\ (C9_CheckStep /\ isAbandoned)
          => /\ timeoutError' = timeoutError
             /\ timeoutErrorBy' = timeoutErrorBy
             /\ readerCancels' = readerCancels
     /\ (readerCancels /\ timeoutError = NoError)
          => timeoutError' = NoError /\ timeoutErrorBy' = "none"]_vars

\* C40 witness: a guard abandoned by its caller, its timer still alive, has
\* been checked after the stream had been silent for longer than the
\* threshold, and holds no timeout error
C40_Witness ==
  /\ idleTimer = "active" /\ isAbandoned /\ readerCancels
  /\ timeoutError = NoError /\ timeoutErrorBy = "none"
  /\ onTimeout # "none"
  /\ nextCheck - CheckIntervalMs > lastChunkTime + idleTimeoutMs

(***************************************************************************)
(* Further claims about the Anthropic dispatch.                            *)
(***************************************************************************)
\* the tool calls whose block was started and never stopped
C33_OpenCalls ==
  { j \in 1..Len(toolCallsBuffer) :
      toolCallsBuffer[j].id \notin completedToolBlocks }

\* C33: in the Anthropic adapter a tool-call block that was started and
\* whose content_block_stop never arrived is still finalized when the
\* stream ends normally: the stream ends with done, there is exactly one
\* tool_calls event, and the call is in it, at its place, with arguments
\* that are valid JSON: those of the fragments received if they parse as
\* they are or after repair, and {} otherwise.
C33_OpenBlockFinalized ==
  (finished /\ C33_OpenCalls # {})
    => /\ emitted[Len(emitted)].type = "done"
       /\ Cardinality({ k \in 1..Len(emitted) :
                          emitted[k].type = "tool_calls" }) = 1
       /\ \A k \in 1..Len(emitted) :
            emitted[k].type = "tool_calls"
              => /\ Len(emitted[k].tool_calls) = Len(toolCallsBuffer)
                 /\ \A j \in C33_OpenCalls :
                      LET call == emitted[k].tool_calls[j]
                          raw == toolCallsBuffer[j].arguments
                          parsed == ParseJsonWithFix(
                                      IF Trim(raw) = "" THEN "{}"
                                      ELSE Trim(raw), "{}")
                      IN  /\ call.id = toolCallsBuffer[j].id
                          /\ call.name = toolCallsBuffer[j].name
                          /\ JsonParse(call.arguments).ok
                          /\ call.arguments
                               = IF parsed.success THEN parsed.data ELSE "{}"

\* C33 witness: the stream ended with the block of t1 open and its input
\* broken off, and the tool_calls event holds the repaired arguments
C33_Witness ==
  /\ finished /\ C33_OpenCalls = {1}
  /\ toolCallsBuffer[1].arguments = "{\"a\":1"
  /\ \E k \in 1..Len(emitted) :
       /\ emitted[k].type = "tool_calls"
       /\ emitted[k].tool_calls[1].arguments = "{\"a\":1}"

(***************************************************************************)
(* Further claims about the events delivered.                              *)
(***************************************************************************)
\* C34: every event an adapter delivers to the caller has a kind from the
\* closed set content, reasoning_started, reasoning_delta, tool_call_delta,
\* tool_calls, usage, done.
C34_ClosedEventKinds ==
  \A i \in 1..Len(out) :
    out[i] \in {"content", "reasoning_started", "reasoning_delta",
                "tool_call_delta", "tool_calls", "usage", "done"}

\* C34 (as amended): every event an adapter delivers has a kind from content,
\* reasoning_started, reasoning_delta, tool_call_delta, tool_calls, usage,
\* done, or, from the Responses adapter only, reasoning_data.
C34_KindsWithReasoningData ==
  \A i \in 1..Len(out) :
    \/ out[i] \in {"content", "reasoning_started", "reasoning_delta",
                   "tool_call_delta", "tool_calls", "usage", "done"}
    \/ adapter = "responses" /\ out[i] = "reasoning_data"

C34_Witness ==
  /\ adapter = "responses"
  /\ pc = "done"
  /\ result.kind = "returned"
  /\ \E i \in 1..Len(out) : out[i] = "reasoning_data"
  /\ out[Len(out)] = "done"

(***************************************************************************)
(* Frames discarded after the timer abandoned the guard.                   *)
(***************************************************************************)
RECURSIVE C35_Discards(_)
\* whether the loop over the lines ls, run with an abandoned guard, reaches
\* a frame that parses and drops it at if (!guard.isAbandoned())
C35_Discards(ls) ==
  IF ls = <<>> THEN FALSE
  ELSE IF Head(ls) = "[DONE]" THEN FALSE
  ELSE IF ~PayloadParses[Head(ls)] THEN C35_Discards(NextLines(Tail(ls)))
  ELSE TRUE

\* whether the sentinel line follows in the lines ls
C35_HasSentinel(ls) == \E i \in 1..Len(ls) : ls[i] = "[DONE]"

\* the producer of parseSSEStream's adapters goes on from a yield at which
\* the timer abandoned the guard, and discards a frame of the same chunk
C35_DiscardStep ==
  /\ pc = "running" /\ apc = "yield" /\ after = "loop"
  /\ Unguarded(pending) = <<>>
  /\ adapter # "gemini"
  /\ isAbandoned /\ timeoutError # NoError
  /\ C35_Discards(lines)
  /\ ev' \in {"Yield", "Read", "Return", "Fail"}

\* C35: an adapter attempt in which a decoded frame was discarded because
\* the timer had abandoned the guard never completes successfully, also when
\* the discarded frames are followed by data: [DONE] in the same chunk: the
\* run of the loop that discards delivers nothing, does not reach the final
\* events and goes back to the read at which the timeout error is raised.
C35_DiscardedNeverCompletes ==
  [][C35_DiscardStep =>
       /\ out' = out
       /\ after' \notin {"final", "return"}
       /\ apc' = "read"]_vars

\* C35 without the sentinel line and without a cancelled token
C35_DiscardedWithoutSentinel ==
  [][C35_DiscardStep /\ ~C35_HasSentinel(lines) /\ ~aborted =>
       /\ out' = out
       /\ after' \notin {"final", "return"}
       /\ apc' = "read"]_vars

\* the read after the timer fired raises the captured timeout error
C35_ReadRaisesTimeout ==
  [][(pc = "running" /\ apc = "read" /\ timeoutError # NoError
      /\ ev' \in {"Yield", "Read", "Return", "Fail"}) =>
       /\ ev' = "Fail"
       /\ lastError' = timeoutError
       /\ out' = out]_vars

\* C35 while the token is not cancelled: the sentinel line alone is left
C35_DiscardedNotCancelled ==
  [][C35_DiscardStep /\ ~aborted =>
       /\ out' = out
       /\ after' \notin {"final", "return"}
       /\ apc' = "read"]_vars

(***************************************************************************)
(* withRetryGenerator after partial output.                                *)
(***************************************************************************)
\* the elements of out are <<invocation, index in that invocation's output>>:
\* each invocation's elements start at its first and are consecutive, and
\* the invocations follow each other in order
C36_AttemptsInOrder ==
  \A i \in 1..Len(out) :
    IF i = 1 THEN out[i][2] = 1
    ELSE \/ out[i] = <<out[i - 1][1], out[i - 1][2] + 1>>
         \/ out[i][1] > out[i - 1][1] /\ out[i][2] = 1

C37_FlagNeverReset ==
  /\ [][mode = "gen" /\ hasYielded => hasYielded']_vars
  /\ [](mode = "gen" /\ out # <<>> => hasYielded)
  /\ [][(mode = "gen" /\ out # <<>> /\ pc = "running" /\ ev' = "Fail") =>
          /\ pc' = "delay" => StreamInterruption[lastError']
          /\ ~StreamInterruption[lastError'] =>
               /\ pc' = "done" /\ result' = Thrown(lastError')
               /\ obs' = obs]_vars

\* the second attempt fails with the HTTP 503 before it yields anything,
\* with retries left, and the error is raised
C37_Witness ==
  /\ mode = "gen" /\ pc = "done" /\ ev = "Fail"
  /\ calls = 2 /\ yielded = 0 /\ out # <<>>
  /\ attempt < maxRetries /\ ~aborted
  /\ result = Thrown(Err("Error",
                         "OpenAI API error: 503 Service Unavailable - "))
  /\ Retriable[result.error]
  /\ Len(obs) <= 1

\* the errors whose message is only 'reader error' or 'incomplete data'
C38_SignatureOnly ==
  { Err("Error", "reader error"), Err("Error", "incomplete data") }

\* C38: in withRetryGenerator a failure is retried only if isRetriableError
\* classifies it retriable, whether or not it matches the
\* stream-interruption signature: an error whose message is only
\* 'reader error' or 'incomplete data' is raised without retry, observer
\* call or wait, before and after partial output.
C38_SignatureNotSufficient ==
  /\ [](\A e \in C38_SignatureOnly :
          StreamInterruption[e] /\ ~Retriable[e])
  /\ [][(mode = "gen" /\ pc = "running" /\ ev' = "Fail") =>
          /\ (pc' = "delay" \/ obs' # obs) => Retriable[lastError']
          /\ ~Retriable[lastError'] =>
               /\ pc' = "done" /\ result' = Thrown(lastError')
               /\ obs' = obs]_vars

\* after partial output and with retries left, an attempt failed with
\* 'incomplete data' and the error was raised
C38_Witness ==
  /\ mode = "gen" /\ pc = "done" /\ ev = "Fail"
  /\ out # <<>> /\ hasYielded
  /\ attempt < maxRetries /\ ~aborted /\ onRetry
  /\ result = Thrown(Err("Error", "incomplete data"))
  /\ obs = <<>>

=============================================================================
